---- MODULE Spec2Model ----
(***************************************************************************)
(* Model of the finite-state-machine engine of DeviceControler:           *)
(* state.py (State, Transition) and fsm.py (FiniteStateMachine, Layout).  *)
(* A machine is built from a layout, then driven by track, transit_to,    *)
(* reset, stop and the blocking loop of start.  Every operation records   *)
(* the hooks it ran, in order, in `log`, and its arguments and the state  *)
(* it started from in `last`.                                             *)
(***************************************************************************)
EXTENDS Integers, Sequences, FiniteSets, TLC

VARIABLES
    layout,                      \* FiniteStateMachine.__layout (NoLayout before construction)
    current_applicative_state,   \* FiniteStateMachine.__current_applicative_state
    current_operational_state,   \* FiniteStateMachine.__current_operational_state
    pc,                          \* "new": no machine yet, "idle": between calls, "loop": inside start()
    now,                         \* perf_counter()
    current_time,                \* start(): the local current_time
    elapsed_time,                \* start(): the local elapsed_time
    time_budget,                 \* start(): the argument time_budget
    log,                         \* hooks and assignments of the last operation, in order
    last                         \* the last operation: name, arguments, state before, outcome

\* monitored.py: a machine of two MonitoredStates joined by MonitoredTransitions
VARIABLES
    mon_state,                   \* the machine's current state
    monitored_state,             \* per MonitoredState: entry_count, last_entry_time, last_exit_time
    monitored_transition,        \* per MonitoredTransition: transit_count, last_transit_time
    mon_log,                     \* what the callbacks of the last operation saw, in order
    mon_last,                    \* the last operation and the fields before it
    mon_hist                     \* how often each state was entered and each transition taken


\* action.py: two ActionStates and the ActionTransitions between them
VARIABLES
    act_state,                   \* the current state of the machine
    action_state,                \* per state: its callback lists and its transitions
    action_transition,           \* per transition: its transiting callbacks
    act_log,                     \* the callbacks run by the last operation, in order
    act_last                     \* the last operation and the lists before it


\* monitored.py: a StateEntryCountCondition watching one MonitoredState
VARIABLES
    count_state,                 \* the monitored state
    count_condition,             \* the condition's fields
    count_last,                  \* the last operation and its result
    count_hist                   \* the entries since construction and how they were evaluated


\* conditional.py: one TimedCondition
VARIABLES
    timed_condition,             \* the condition's fields
    timed_last,                  \* the last operation and its result
    timed_hist                   \* the time of the last reset() and whether it was true since


\* conditional.py: one composite condition and its children
VARIABLES
    many_conditions,             \* the composite: its class, inverse and children
    cond_last                    \* the last operation and its result


\* fsm.py: a Layout under construction, whose states carry plain and
\* conditional transitions
VARIABLES
    lay_layout,                  \* the layout's states and initial state
    lay_transition,              \* per State object: its registered transitions
    lay_last                     \* the last operation and its result


\* blinkers.py: one Blinkers
VARIABLES
    blinker,                     \* the machine: current state, monitored states, durations, custom values
    blk_last,                    \* the last operation, its arguments, its result and the machine before it
    blk_hist                     \* the commands made so far and the track() calls since the last one


\* blinkers.py: one SideBlinkers
VARIABLES
    sides,                       \* the left and the right Blinkers
    side_last,                   \* the last operation, its arguments, its result, the clock at each channel's call
    side_hist                    \* the observed command and the track() calls made since


\* state.py: States built with Parameters, in a machine of two states
VARIABLES
    par_parameters,              \* per State object: its Parameters
    par_state,                   \* the machine's current state
    par_last                     \* the last operation, the state before it and the hook methods it ran


\* c64.py: a machine whose task state drives a nested machine
VARIABLES
    nest_parent,                 \* the parent machine's current state
    nest_child,                  \* the nested machine's current state
    nest_last                    \* the last operation, both states before it, the track() calls made on the nested machine

fsm_vars == <<layout, current_applicative_state, current_operational_state, pc,
              current_time, elapsed_time, time_budget, log, last>>
mon_vars == <<mon_state, monitored_state, monitored_transition, mon_log, mon_last, mon_hist>>
act_vars == <<act_state, action_state, action_transition, act_log, act_last>>
cnt_vars == <<count_state, count_condition, count_last, count_hist>>
timed_vars == <<timed_condition, timed_last, timed_hist>>
cond_vars == <<many_conditions, cond_last>>
lay_vars == <<lay_layout, lay_transition, lay_last>>
blk_vars == <<blinker, blk_last, blk_hist>>
side_vars == <<sides, side_last, side_hist>>
par_vars == <<par_parameters, par_state, par_last>>
nest_vars == <<nest_parent, nest_child, nest_last>>

vars == <<fsm_vars, now, mon_vars, act_vars, cnt_vars, timed_vars, cond_vars, lay_vars, blk_vars, side_vars, par_vars, nest_vars>>

\* each component's operations leave the other components alone
FsmFrame == UNCHANGED <<mon_vars, act_vars, cnt_vars, timed_vars, cond_vars, lay_vars, blk_vars, side_vars, par_vars, nest_vars>>
MonFrame == UNCHANGED <<fsm_vars, act_vars, cnt_vars, timed_vars, cond_vars, lay_vars, blk_vars, side_vars, par_vars, nest_vars>>
ActFrame == UNCHANGED <<fsm_vars, now, mon_vars, cnt_vars, timed_vars, cond_vars, lay_vars, blk_vars, side_vars, par_vars, nest_vars>>
CountFrame == UNCHANGED <<fsm_vars, now, mon_vars, act_vars, timed_vars, cond_vars, lay_vars, blk_vars, side_vars, par_vars, nest_vars>>
TimedFrame == UNCHANGED <<fsm_vars, now, mon_vars, act_vars, cnt_vars, cond_vars, lay_vars, blk_vars, side_vars, par_vars, nest_vars>>
CondFrame == UNCHANGED <<fsm_vars, now, mon_vars, act_vars, cnt_vars, timed_vars, lay_vars, blk_vars, side_vars, par_vars, nest_vars>>
LayFrame == UNCHANGED <<fsm_vars, now, mon_vars, act_vars, cnt_vars, timed_vars, cond_vars, blk_vars, side_vars, par_vars, nest_vars>>
BlkFrame == UNCHANGED <<fsm_vars, now, mon_vars, act_vars, cnt_vars, timed_vars, cond_vars, lay_vars, side_vars, par_vars, nest_vars>>
SideFrame == UNCHANGED <<fsm_vars, mon_vars, act_vars, cnt_vars, timed_vars, cond_vars, lay_vars, blk_vars, par_vars, nest_vars>>
ParFrame == UNCHANGED <<fsm_vars, now, mon_vars, act_vars, cnt_vars, timed_vars, cond_vars, lay_vars, blk_vars, side_vars, nest_vars>>
NestFrame == UNCHANGED <<fsm_vars, now, mon_vars, act_vars, cnt_vars, timed_vars, cond_vars, lay_vars, blk_vars, side_vars, par_vars>>

----------------------------------------------------------------------------
(* Bounds *)

MaxClock == 3
MaxBudget == 2
MaxMonOps == 4
MaxActions == 3
MaxExpected == 3
MaxEntries == 7
MaxDuration == 2
MaxChildren == 3
MaxTransitions == 2
MaxCommands == 2
MaxTracks == 5
MaxSideTracks == 4

\* durations are counted in quarters of a clock unit
Scale == 4

----------------------------------------------------------------------------
(* Values *)

None == "None"
States == {"A", "B", "C"}

UNITIALIZED == "UNITIALIZED"
IDLE == "IDLE"
RUNNING == "RUNNING"
TERMINAL_REACHED == "TERMINAL_REACHED"
OperationalState == {UNITIALIZED, IDLE, RUNNING, TERMINAL_REACHED}

\* The transition lists of the three State objects: the next_state of each
\* registered transition, in registration order (None: next_state never set).
TransitionTables ==
    { [s \in States |-> CASE s = "A" -> <<"B">>      [] s = "B" -> <<"C">>      [] OTHER -> <<"A">>],
      [s \in States |-> CASE s = "A" -> <<"B", "C">> [] s = "B" -> <<"B", "A">> [] OTHER -> <<>>],
      [s \in States |-> CASE s = "A" -> <<"B">>      [] s = "B" -> <<None>>     [] OTHER -> <<>>],
      [s \in States |-> CASE s = "A" -> <<"C", "B">> [] s = "B" -> <<>>         [] OTHER -> <<None>>] }

DeclaredSets == { {}, {"A", "B"}, {"A", "B", "C"} }
TerminalSets == { {}, {"A"}, {"C"} }

\* Layout.initial_state's setter only accepts a member of the states set.
Layouts ==
    { [states |-> d, initial_state |-> i, transition |-> t,
       terminal |-> [s \in States |-> s \in z]] :
        d \in DeclaredSets, i \in States \cup {None}, t \in TransitionTables, z \in TerminalSets }

ValidInputLayouts == { L \in Layouts : L.initial_state \in L.states \cup {None} }

NoLayout == [states |-> {}, initial_state |-> None,
             transition |-> [s \in States |-> <<>>],
             terminal |-> [s \in States |-> FALSE]]

Ev(h, s, i) == [hook |-> h, state |-> s, idx |-> i]

NoGuards == <<FALSE, FALSE>>
Guards == { <<a, b>> : a \in BOOLEAN, b \in BOOLEAN }

\* Arguments of start(): reset (a bool or something else) and time_budget
\* (None, a float, or a value of another type such as an int).
ResetArgs == {"True", "False", "NotABool"}
NoBudget == [kind |-> "None", val |-> 0]
TimeBudgets == {NoBudget} \cup { [kind |-> "float", val |-> v] : v \in (0 - 1)..MaxBudget }
                 \cup { [kind |-> "int", val |-> 1] }

\* Arguments of transit_to(): a State object (declared in the layout or not),
\* None, or a value that is not a State.
TransitArgs == States \cup {None, "NotAState"}

NoOp == [op |-> "none", arg |-> "", arg2 |-> "", val |-> 0, layout |-> NoLayout,
         guards |-> NoGuards,
         stop |-> FALSE, in_start |-> FALSE, pre_state |-> None, pre_op |-> UNITIALIZED,
         ret |-> "None", err |-> "none"]

----------------------------------------------------------------------------
(* state.py *)

\* Transition.valid: a next_state must be set.
Transition_valid(next_state) == IF next_state = None THEN FALSE ELSE TRUE

\* State.valid: every registered transition is valid.
State_valid(transitions) ==
    \A i \in 1..Len(transitions) : Transition_valid(transitions[i])

\* State.transiting: the first registered transition whose `transiting` is
\* true, scanning in registration order; 0 when there is none.
RECURSIVE ScanTransiting(_, _, _)
ScanTransiting(transitions, g, i) ==
    IF i > Len(transitions) THEN 0
    ELSE IF g[i] THEN i
    ELSE ScanTransiting(transitions, g, i + 1)

\* State.transiting returning the last registered transition that is true
State_transiting_LastWins(transitions, g) ==
    LET T == { i \in 1..Len(transitions) : g[i] }
    IN  IF T = {} THEN 0 ELSE CHOOSE i \in T : \A j \in T : j <= i

State_transiting(transitions, g) ==
    IF Len(transitions) < 1 THEN 0 ELSE ScanTransiting(transitions, g, 1)

----------------------------------------------------------------------------
(* fsm.py *)

\* Layout.valid
Layout_valid(L) ==
    IF L.initial_state = None THEN FALSE
    ELSE \A s \in L.states : State_valid(L.transition[s])

\* _transit_by entering the next state before leaving the current one
TransitBy_EntryFirst(L, cas, i) ==
    LET next_state == L.transition[cas][i] IN
    [cas |-> next_state,
     log |-> (IF next_state = None THEN <<>> ELSE <<Ev("entry", next_state, 0)>>)
             \o <<Ev("exit", cas, 0), Ev("transiting", cas, i), Ev("set", next_state, 0)>>,
     err |-> IF next_state = None THEN "AttributeError" ELSE "none"]

\* FiniteStateMachine._transit_by: exit hook, transiting hook, assignment,
\* entry hook.  Entering None (a transition without next_state) raises.
TransitBy(L, cas, i) ==
    LET next_state == L.transition[cas][i] IN
    [cas |-> next_state,
     log |-> <<Ev("exit", cas, 0), Ev("transiting", cas, i), Ev("set", next_state, 0)>>
             \o (IF next_state = None THEN <<>> ELSE <<Ev("entry", next_state, 0)>>),
     err |-> IF next_state = None THEN "AttributeError" ELSE "none"]

\* FiniteStateMachine.track, line 207: the statement compares the operational
\* state with TERMINAL_REACHED and discards the result.
TerminalReachedStatement(ops) == ops

\* track() returning the terminal flag itself
TrackReturn_Negated(L, cas) == IF L.terminal[cas] THEN "True" ELSE "False"

\* The value track() returns.
TrackReturn(L, cas) == IF L.terminal[cas] THEN "False" ELSE "True"

\* FiniteStateMachine.track.  g: the value of each transition's `transiting`
\* at call time; stop: one of the hooks run by this call calls stop().
TrackResult(L, cas, ops, g, stop) ==
    IF cas = None
    THEN [cas |-> cas, ops |-> ops, log |-> <<>>, ret |-> "None", err |-> "AttributeError"]
    ELSE LET i == State_transiting(L.transition[cas], g)
             t == IF i # 0 THEN TransitBy(L, cas, i)
                  ELSE [cas |-> cas, log |-> <<Ev("in_state", cas, 0)>>, err |-> "none"]
             o == IF stop THEN IDLE ELSE ops
         IN  IF t.err # "none"
             THEN [cas |-> t.cas, ops |-> o, log |-> t.log, ret |-> "None", err |-> t.err]
             ELSE [cas |-> t.cas,
                   ops |-> IF L.terminal[t.cas] THEN TerminalReachedStatement(o) ELSE o,
                   log |-> t.log, ret |-> TrackReturn(L, t.cas), err |-> "none"]

\* reset() leaving the operational state as it is
ResetResult_KeepsOperationalState(L, cas, ops) ==
    LET c == L.initial_state IN
    [cas |-> c,
     log |-> <<Ev("set", c, 0)>> \o (IF ops = RUNNING THEN <<Ev("exit", c, 0)>> ELSE <<>>),
     ops |-> ops]

\* FiniteStateMachine.reset
ResetResult(L, cas, ops) ==
    LET c == L.initial_state IN
    [cas |-> c,
     log |-> <<Ev("set", c, 0)>> \o (IF ops = RUNNING THEN <<Ev("exit", c, 0)>> ELSE <<>>),
     ops |-> IDLE]

\* transit_to() assigning the new state before running the exit hook
TransitToResult_SetFirst(cas, state) ==
    IF state \notin States
    THEN [cas |-> cas, log |-> <<>>, err |-> "TypeError"]
    ELSE IF cas = None
    THEN [cas |-> cas, log |-> <<>>, err |-> "AttributeError"]
    ELSE [cas |-> state,
          log |-> <<Ev("set", state, 0), Ev("exit", state, 0), Ev("entry", state, 0)>>,
          err |-> "none"]

\* transit_to() that does not run the exit hook of the state it leaves
TransitToResult_NoExit(cas, state) ==
    IF state \notin States
    THEN [cas |-> cas, log |-> <<>>, err |-> "TypeError"]
    ELSE IF cas = None
    THEN [cas |-> cas, log |-> <<>>, err |-> "AttributeError"]
    ELSE [cas |-> state,
          log |-> <<Ev("set", state, 0), Ev("entry", state, 0)>>,
          err |-> "none"]

\* FiniteStateMachine.transit_to
TransitToResult(cas, state) ==
    IF state \notin States
    THEN [cas |-> cas, log |-> <<>>, err |-> "TypeError"]
    ELSE IF cas = None
    THEN [cas |-> cas, log |-> <<>>, err |-> "AttributeError"]
    ELSE [cas |-> state,
          log |-> <<Ev("exit", cas, 0), Ev("set", state, 0), Ev("entry", state, 0)>>,
          err |-> "none"]

\* __init__ without the layout.valid check
ConstructResult_NoValidCheck(arg, L, unitialized) ==
    IF arg # "Layout" THEN [ok |-> FALSE, err |-> "TypeError"]
    ELSE [ok |-> TRUE, err |-> "none"]

\* start() that does not look at the type of time_budget
StartRejects_NoBudgetCheck(reset, budget) == reset = "NotABool"

\* FiniteStateMachine.start, lines 223-226 and 237-238: the argument checks
StartRejects(reset, budget) ==
    reset = "NotABool" \/ budget.kind \notin {"float", "None"}

\* a loop condition that never looks at the budget
WithinBudget_NoBudget(budget, elapsed) == TRUE

\* FiniteStateMachine.start, line 235: the first operand of the loop condition
WithinBudget(budget, elapsed) == budget.kind = "None" \/ elapsed < budget.val

\* the loop going on after a step in which stop() was called
LoopContinues_IgnoresStop(r) == r.err = "none" /\ r.ret = "True"

\* FiniteStateMachine.start, line 235: the operands evaluated after track()
\* (an exception raised by track() leaves start())
LoopContinues(r) == r.err = "none" /\ r.ret = "True" /\ r.ops = RUNNING

\* FiniteStateMachine.__init__
ConstructResult(arg, L, unitialized) ==
    IF arg # "Layout" THEN [ok |-> FALSE, err |-> "TypeError"]
    ELSE IF ~Layout_valid(L) THEN [ok |-> FALSE, err |-> "ValueError"]
    ELSE [ok |-> TRUE, err |-> "none"]

----------------------------------------------------------------------------
(* monitored.py: MonitoredState, MonitoredTransition *)

\* Two MonitoredStates, each with one MonitoredTransition to the other.
MonStates == {"X", "Y"}
MonTransitions == {"XY", "YX"}
MonOut(s) == IF s = "X" THEN "XY" ELSE "YX"
MonTarget(t) == IF t = "XY" THEN "Y" ELSE "X"

\* last_transit_time before the first transit (None)
NoTime == 0 - 1

\* MonitoredState.__init__ at time t
NewMonitoredState(t) == [entry_count |-> 0, last_entry_time |-> t, last_exit_time |-> t]

\* MonitoredTransition.__init__
NewMonitoredTransition == [transit_count |-> 0, last_transit_time |-> NoTime]

\* What a callback of state s sees of s when it runs at time t.
Seen(h, s, st, t) ==
    [hook |-> h, state |-> s, entry_count |-> st.entry_count,
     last_entry_time |-> st.last_entry_time, last_exit_time |-> st.last_exit_time, at |-> t]

\* _exec_entering_action running the callbacks before the bookkeeping
MonitoredState_exec_entering_action_CallbacksFirst(s, st, t) ==
    [st |-> [st EXCEPT !.last_entry_time = t, !.entry_count = @ + 1],
     log |-> <<Seen("entering", s, st, t)>>]

\* MonitoredState._exec_entering_action at time t: the entry time, the
\* counter, then the entering callbacks.
MonitoredState_exec_entering_action(s, st, t) ==
    LET st1 == [st EXCEPT !.last_entry_time = t, !.entry_count = @ + 1]
    IN  [st |-> st1, log |-> <<Seen("entering", s, st1, t)>>]

\* MonitoredState._exec_exiting_action at time t: the exiting callbacks,
\* which take d, then the exit time.
MonitoredState_exec_exiting_action(s, st, t, d) ==
    [st |-> [st EXCEPT !.last_exit_time = t + d],
     log |-> <<Seen("exiting", s, st, t)>>]

\* ActionState._do_in_state_action
MonitoredState_exec_in_state_action(s, st, t) ==
    [st |-> st, log |-> <<Seen("in_state", s, st, t)>>]

\* MonitoredTransition._exec_transiting_action at time t: only the time is
\* written, transit_count is left as it is.
MonitoredTransition_exec_transiting_action(tr, t) ==
    [tr EXCEPT !.last_transit_time = t]

\* MonitoredState.reset_entry_count
MonitoredState_reset_entry_count(st) == [st EXCEPT !.entry_count = 0]

\* MonitoredTransition.reset_transit_count
MonitoredTransition_reset_transit_count(tr) == [tr EXCEPT !.transit_count = 0]

NoMonOp == [op |-> "none", arg |-> "", fired |-> FALSE, at |-> 0,
            pre |-> [s \in MonStates |-> NewMonitoredState(0)],
            pre_tr |-> [t \in MonTransitions |-> NewMonitoredTransition]]

MonInit ==
    /\ mon_state = "X"
    /\ monitored_state = [s \in MonStates |-> NewMonitoredState(0)]
    /\ monitored_transition = [t \in MonTransitions |-> NewMonitoredTransition]
    /\ mon_log = <<>>
    /\ mon_last = NoMonOp
    /\ mon_hist = [entries |-> [s \in MonStates |-> 0], transits |-> [t \in MonTransitions |-> 0],
                   count_reset |-> {}, transit_reset |-> {}, ops |-> 0]


----------------------------------------------------------------------------
(* action.py: ActionState, ActionTransition *)

ActStates == {"P", "Q"}
\* ActionTransitions, T1 with next_state Q and T2 with next_state P
ActTransitions == {"T1", "T2"}
ActTarget(t) == IF t = "T1" THEN "Q" ELSE "P"

\* callables, and the arguments given to the add_* operations
Callbacks == {"f", "g"}
ActionArgs == Callbacks \cup {None, "text"}
TransitionArgs == ActTransitions \cup {None, "f"}

\* callable(action)
Callable(action) == action \in Callbacks
\* isinstance(transition, Transition)
IsTransition(transition) == transition \in ActTransitions

\* add_*_action without the callable() test
AddAction_NoCheck(actions, action) ==
    [err |-> "none", list |-> Append(actions, action)]

\* ActionState.add_entering_action / add_in_state_action / add_exiting_action,
\* ActionTransition.add_transiting_action
AddAction(actions, action) ==
    IF Callable(action)
    THEN [err |-> "none", list |-> Append(actions, action)]
    ELSE [err |-> "TypeError", list |-> actions]

\* State.add_transition
State_add_transition(transitions, transition) ==
    IF ~IsTransition(transition)
    THEN [err |-> "TypeError", list |-> transitions]
    ELSE [err |-> "none", list |-> Append(transitions, transition)]

\* for action in actions: action()
RunActions(h, owner, actions) ==
    [k \in 1..Len(actions) |-> [hook |-> h, owner |-> owner, action |-> actions[k]]]

\* ActionState._do_entering_action / _do_in_state_action / _do_exiting_action
ActionState_do_action(h, s, st) == RunActions(h, s, st[h])

\* ActionTransition._do_transiting_action: delegates to Transition, whose
\* _do_transiting_action is empty; the registered list is not read.
ActionTransition_do_transiting_action(t, tr) == <<>>

NewActionState == [entering |-> <<>>, in_state |-> <<>>, exiting |-> <<>>, transitions |-> <<>>]
NewActionTransition == [transiting |-> <<>>]

NoActOp == [op |-> "none", target |-> "", arg |-> "", err |-> "none", taken |-> None,
            pre_state |-> "P",
            pre |-> [s \in ActStates |-> NewActionState],
            pre_tr |-> [t \in ActTransitions |-> NewActionTransition]]

ActInit ==
    /\ act_state = "P"
    /\ action_state = [s \in ActStates |-> NewActionState]
    /\ action_transition = [t \in ActTransitions |-> NewActionTransition]
    /\ act_log = <<>>
    /\ act_last = NoActOp


----------------------------------------------------------------------------
(* conditional.py: Condition; monitored.py: StateEntryCountCondition *)

\* Condition.__bool__: inverse ^ _compare()
Condition_bool(inverse, raw) == inverse # raw

\* StateEntryCountCondition.__init__ on a state entered entry_count times
NewStateEntryCountCondition(entry_count, expected_count, auto_reset, inverse) ==
    [built |-> TRUE, expected_count |-> expected_count, auto_reset |-> auto_reset,
     inverse |-> inverse, ref_count |-> entry_count]

NoCountCondition ==
    [built |-> FALSE, expected_count |-> 1, auto_reset |-> TRUE, inverse |-> FALSE, ref_count |-> 0]

\* _compare leaving the reference count where it is
StateEntryCountCondition_compare_NoReset(cond, entry_count) ==
    [ret |-> entry_count >= cond.ref_count + cond.expected_count, cond |-> cond]

\* StateEntryCountCondition._compare
StateEntryCountCondition_compare(cond, entry_count) ==
    IF entry_count >= cond.ref_count + cond.expected_count
    THEN [ret |-> TRUE,
          cond |-> IF cond.auto_reset THEN [cond EXCEPT !.ref_count = entry_count] ELSE cond]
    ELSE [ret |-> FALSE, cond |-> cond]

\* StateEntryCountCondition.reset_count
StateEntryCountCondition_reset_count(cond) == [cond EXCEPT !.ref_count = 0]

NoCountOp == [op |-> "none", result |-> FALSE, fresh |-> FALSE]

CountInit ==
    /\ count_state = NewMonitoredState(0)
    /\ count_condition = NoCountCondition
    /\ count_last = NoCountOp
    /\ count_hist = [entries |-> 0, awaiting |-> FALSE, regular |-> TRUE, reset |-> FALSE]


----------------------------------------------------------------------------
(* conditional.py: TimedCondition *)

\* Arguments given as a duration: floats (negative, zero, positive), ints
\* and a string; time is counted in units of the clock.
Durations == { [kind |-> "float", val |-> v] : v \in (0 - 1)..MaxDuration }
             \cup { [kind |-> "int", val |-> v] : v \in 0..1 }
             \cup { [kind |-> "str", val |-> 0] }

\* Arguments given as time_reference: None or an earlier reading of the clock
TimeReferences == {NoTime} \cup 0..MaxClock

\* TimedCondition.duration setter: the error it raises, "none" if it assigns.
\* `duration <= 0` comes first and is itself a TypeError on a string.
TimedCondition_set_duration(duration) ==
    IF duration.kind = "str" THEN "TypeError"
    ELSE IF duration.val <= 0 THEN "ValueError"
    ELSE IF duration.kind # "float" THEN "TypeError"
    ELSE "none"

\* _compare with < where the code has <=
TimedCondition_compare_Strict(cond, t) ==
    cond.counter_reference + cond.counter_duration < t

\* TimedCondition._compare at time t
TimedCondition_compare(cond, t) ==
    cond.counter_reference + cond.counter_duration <= t

\* TimedCondition.reset at time t
TimedCondition_reset(cond, t) == [cond EXCEPT !.counter_reference = t]

\* TimedCondition.__init__ at time t, once the duration is accepted
NewTimedCondition(duration, time_reference, inverse, t) ==
    LET cond == [built |-> TRUE, inverse |-> inverse, counter_duration |-> duration.val,
                 counter_reference |-> time_reference]
    IN  IF time_reference = NoTime THEN TimedCondition_reset(cond, t) ELSE cond

NoTimedCondition ==
    [built |-> FALSE, inverse |-> FALSE, counter_duration |-> 1, counter_reference |-> 0]

NoTimedOp ==
    [op |-> "none", err |-> "none", at |-> 0, result |-> FALSE, raw |-> FALSE, was_true |-> FALSE]

TimedInit ==
    /\ timed_condition = NoTimedCondition
    /\ timed_last = NoTimedOp
    /\ timed_hist = [last_reset |-> NoTime, true_since |-> FALSE]


----------------------------------------------------------------------------
(* conditional.py: AlwaysTrueCondition, ValueCondition, ManyConditions *)

\* values held by a ValueCondition; 0 is falsy
Values == 0..1

\* A condition object: its class, its inverse flag, the fields of a
\* ValueCondition and the children of a composite.
AlwaysTrueCondition(inverse) ==
    [type |-> "AlwaysTrueCondition", inverse |-> inverse, value |-> 0, expected_value |-> 0,
     conditions |-> <<>>]
ValueCondition(initial_value, expected_value, inverse) ==
    [type |-> "ValueCondition", inverse |-> inverse, value |-> initial_value,
     expected_value |-> expected_value, conditions |-> <<>>]
ManyConditions(type, inverse) ==
    [type |-> type, inverse |-> inverse, value |-> 0, expected_value |-> 0, conditions |-> <<>>]

ManyTypes == {"AllConditions", "AnyConditions", "NoneConditions"}
LeafConditions ==
    { AlwaysTrueCondition(i) : i \in BOOLEAN }
    \cup { ValueCondition(v, e, i) : v \in Values, e \in Values, i \in BOOLEAN }

\* AlwaysTrueCondition._compare, ValueCondition._compare
Leaf_compare(c) == IF c.type = "AlwaysTrueCondition" THEN TRUE ELSE c.value = c.expected_value

\* bool(c) for a child c
Leaf_bool(c) == Condition_bool(c.inverse, Leaf_compare(c))

\* Condition.valid, ValueCondition.valid
Leaf_valid(c) ==
    IF c.type = "AlwaysTrueCondition" THEN TRUE
    ELSE IF c.value = 0 \/ c.expected_value = 0 THEN FALSE
    ELSE TRUE

\* all(condition for condition in conditions), from child i on
RECURSIVE AllFrom(_, _)
AllFrom(conditions, i) ==
    IF i > Len(conditions) THEN TRUE
    ELSE IF ~Leaf_bool(conditions[i]) THEN FALSE
    ELSE AllFrom(conditions, i + 1)

\* any(condition for condition in conditions), from child i on
RECURSIVE AnyFrom(_, _)
AnyFrom(conditions, i) ==
    IF i > Len(conditions) THEN FALSE
    ELSE IF Leaf_bool(conditions[i]) THEN TRUE
    ELSE AnyFrom(conditions, i + 1)

\* all(not condition for condition in conditions), from child i on
RECURSIVE AllNotFrom(_, _)
AllNotFrom(conditions, i) ==
    IF i > Len(conditions) THEN TRUE
    ELSE IF Leaf_bool(conditions[i]) THEN FALSE
    ELSE AllNotFrom(conditions, i + 1)

AllConditions_compare(conditions) == AllFrom(conditions, 1)
AnyConditions_compare(conditions) == AnyFrom(conditions, 1)

\* NoneConditions._compare as `not all(...)`
NoneConditions_compare_NotAll(conditions) == ~AllFrom(conditions, 1)

NoneConditions_compare(conditions) == AllNotFrom(conditions, 1)

ManyConditions_compare(c) ==
    CASE c.type = "AllConditions" -> AllConditions_compare(c.conditions)
      [] c.type = "AnyConditions" -> AnyConditions_compare(c.conditions)
      [] OTHER -> NoneConditions_compare(c.conditions)

\* bool(c) for a composite c
ManyConditions_bool(c) == Condition_bool(c.inverse, ManyConditions_compare(c))

\* ManyConditions.valid, from child i on
RECURSIVE AllValidFrom(_, _)
AllValidFrom(conditions, i) ==
    IF i > Len(conditions) THEN TRUE
    ELSE IF ~Leaf_valid(conditions[i]) THEN FALSE
    ELSE AllValidFrom(conditions, i + 1)

ManyConditions_valid(c) ==
    IF Len(c.conditions) < 1 THEN FALSE ELSE AllValidFrom(c.conditions, 1)

\* ManyConditions.add_condition
ManyConditions_add_condition(c, condition) ==
    IF condition \notin LeafConditions
    THEN [err |-> "TypeError", cond |-> c]
    ELSE [err |-> "none", cond |-> [c EXCEPT !.conditions = Append(@, condition)]]

NoManyConditions == ManyConditions("unbuilt", FALSE)
NoCondOp == [op |-> "none", err |-> "none", result |-> FALSE, raw |-> FALSE]

CondInit ==
    /\ many_conditions = NoManyConditions
    /\ cond_last = NoCondOp


----------------------------------------------------------------------------
(* conditional.py: ConditionalTransition; fsm.py: Layout *)

LayStates == {"A", "B"}

\* the next_state of a ConditionalTransition on which the setter was never
\* used: __init__ does not call Transition.__init__, so the attribute is absent
Unassigned == "Unassigned"

\* no condition given to ConditionalTransition()
NoCondition == ManyConditions(None, FALSE)

\* a composite holding the given children
ManyOf(type, conditions) == [ManyConditions(type, FALSE) EXCEPT !.conditions = conditions]

\* The conditions given to conditional transitions: none, a valid and an
\* invalid leaf, and composites without children, with valid children only
\* and with an invalid child after a valid one.
TransitionConditions ==
    { NoCondition,
      AlwaysTrueCondition(FALSE),
      ValueCondition(0, 1, FALSE),
      ManyOf("AllConditions", <<>>),
      ManyOf("AnyConditions", <<ValueCondition(1, 1, FALSE)>>),
      ManyOf("AllConditions", <<AlwaysTrueCondition(FALSE), ValueCondition(1, 0, FALSE)>>) }

\* Transition objects: a plain transition built with or without a
\* next_state, and conditional transitions.
PlainTransition(next_state) ==
    [class |-> "Transition", next_state |-> next_state, condition |-> NoCondition]
ConditionalTransition(condition, next_state) ==
    [class |-> "ConditionalTransition", next_state |-> next_state, condition |-> condition]
TransitionObjects ==
    { PlainTransition(n) : n \in {None, "B"} }
    \cup { ConditionalTransition(c, n) : c \in TransitionConditions, n \in {Unassigned, "B"} }

\* condition.valid
Condition_valid(c) == IF c.type \in ManyTypes THEN ManyConditions_valid(c) ELSE Leaf_valid(c)

\* ConditionalTransition.valid:
\* condition is not None and condition.valid and super().valid, where
\* super().valid reads the attribute that may be absent
ConditionalTransition_valid(t) ==
    IF t.condition = NoCondition THEN "False"
    ELSE IF ~Condition_valid(t.condition) THEN "False"
    ELSE IF t.next_state = Unassigned THEN "AttributeError"
    ELSE IF Transition_valid(t.next_state) THEN "True" ELSE "False"

\* transition.valid
TransitionObject_valid(t) ==
    IF t.class = "ConditionalTransition" THEN ConditionalTransition_valid(t)
    ELSE IF Transition_valid(t.next_state) THEN "True" ELSE "False"

\* State.valid, from transition i on: the first transition that is not
\* valid ends the loop, by a return or by the error it raises
RECURSIVE StateValidFrom(_, _)
StateValidFrom(transitions, i) ==
    IF i > Len(transitions) THEN "True"
    ELSE LET v == TransitionObject_valid(transitions[i])
         IN  IF v # "True" THEN v ELSE StateValidFrom(transitions, i + 1)

\* Layout.valid's loop over the set of states, visited in the given order
RECURSIVE LayoutValidFrom(_, _, _)
LayoutValidFrom(transition, order, i) ==
    IF i > Len(order) THEN "True"
    ELSE LET v == StateValidFrom(transition[order[i]], 1)
         IN  IF v # "True" THEN v ELSE LayoutValidFrom(transition, order, i + 1)

\* Layout.valid
LayoutObject_valid(L, transition, order) ==
    IF L.initial_state = None THEN "False" ELSE LayoutValidFrom(transition, order, 1)

\* the orders in which a set of states can be iterated
Orders(S) == { o \in UNION { [1..n -> S] : n \in {Cardinality(S)} } :
                  \A i, j \in 1..Cardinality(S) : i # j => o[i] # o[j] }

NoLayOp == [op |-> "none", err |-> "none", result |-> ""]

LayInit ==
    /\ lay_layout = [states |-> {}, initial_state |-> None]
    /\ lay_transition = [s \in LayStates |-> <<>>]
    /\ lay_last = NoLayOp


----------------------------------------------------------------------------
(* blinkers.py: Blinkers, the machine *)

\* The eleven MonitoredStates of a Blinkers, named after its attributes.
OnStates_WithBegin == {"on", "on_duration", "blink_on", "blink_stop_on", "blink_begin"}
OnStates == {"on", "on_duration", "blink_on", "blink_stop_on"}
OffStates == {"off", "off_duration", "blink_off", "blink_stop_off",
              "blink_begin", "blink_stop_begin", "blink_stop_end"}
BlinkerStates == OnStates \cup OffStates

\* the states watched by a StateEntryDurationCondition, which name the
\* condition, and the states whose custom_value is read by StateValueConditions
DurationStates == {"off_duration", "on_duration", "blink_off", "blink_on",
                   "blink_stop_begin", "blink_stop_off", "blink_stop_on"}
ValueStates == {"blink_begin", "blink_stop_begin", "blink_stop_end"}

\* Durations are kept in units of 1/Scale of a clock unit, so that
\* cycle_duration * percent_on and total_duration / n_cycles are exact.
DurationOf(v) == Scale * v

\* StateEntryDurationCondition(1, state)
InitialDuration == DurationOf(1)

DurationTransition(of, next_state) ==
    [type |-> "duration", of |-> of, expected |-> "", next_state |-> next_state]
ValueTransition(of, expected, next_state) ==
    [type |-> "value", of |-> of, expected |-> expected, next_state |-> next_state]

\* the transitions with each sub-state's own timer registered before the total one
BlinkerTransitions_CycleFirst(s) ==
    CASE s = "off_duration" -> <<DurationTransition("off_duration", "on")>>
      [] s = "on_duration" -> <<DurationTransition("on_duration", "off")>>
      [] s = "blink_begin" -> <<ValueTransition("blink_begin", "True", "blink_on"),
                                ValueTransition("blink_begin", "False", "blink_off")>>
      [] s = "blink_off" -> <<DurationTransition("blink_off", "blink_on")>>
      [] s = "blink_on" -> <<DurationTransition("blink_on", "blink_off")>>
      [] s = "blink_stop_begin" ->
            <<ValueTransition("blink_stop_begin", "True", "blink_stop_on"),
              ValueTransition("blink_stop_begin", "False", "blink_stop_off")>>
      [] s = "blink_stop_off" ->
            <<DurationTransition("blink_stop_off", "blink_stop_on"),
              DurationTransition("blink_stop_begin", "blink_stop_end")>>
      [] s = "blink_stop_on" ->
            <<DurationTransition("blink_stop_on", "blink_stop_off"),
              DurationTransition("blink_stop_begin", "blink_stop_end")>>
      [] s = "blink_stop_end" -> <<ValueTransition("blink_stop_end", "True", "off"),
                                   ValueTransition("blink_stop_end", "False", "on")>>
      [] OTHER -> <<>>

\* The transitions added to each state by Blinkers.__init__, in order.
BlinkerTransitions(s) ==
    CASE s = "off_duration" -> <<DurationTransition("off_duration", "on")>>
      [] s = "on_duration" -> <<DurationTransition("on_duration", "off")>>
      [] s = "blink_begin" -> <<ValueTransition("blink_begin", "True", "blink_on"),
                                ValueTransition("blink_begin", "False", "blink_off")>>
      [] s = "blink_off" -> <<DurationTransition("blink_off", "blink_on")>>
      [] s = "blink_on" -> <<DurationTransition("blink_on", "blink_off")>>
      [] s = "blink_stop_begin" ->
            <<ValueTransition("blink_stop_begin", "True", "blink_stop_on"),
              ValueTransition("blink_stop_begin", "False", "blink_stop_off")>>
      [] s = "blink_stop_off" ->
            <<DurationTransition("blink_stop_begin", "blink_stop_end"),
              DurationTransition("blink_stop_off", "blink_stop_on")>>
      [] s = "blink_stop_on" ->
            <<DurationTransition("blink_stop_begin", "blink_stop_end"),
              DurationTransition("blink_stop_on", "blink_stop_off")>>
      [] s = "blink_stop_end" -> <<ValueTransition("blink_stop_end", "True", "off"),
                                   ValueTransition("blink_stop_end", "False", "on")>>
      [] OTHER -> <<>>

\* Blinkers.__init__ at time t: the states, the conditions with duration 1,
\* the layout with initial state off, then reset() by FiniteStateMachine.__init__
NewBlinkers(t) ==
    [state |-> "off",
     monitored |-> [s \in BlinkerStates |-> NewMonitoredState(t)],
     duration |-> [s \in DurationStates |-> InitialDuration],
     custom_value |-> [s \in ValueStates |-> None]]

\* Blinkers.on, Blinkers.off
Blinkers_on(b) == b.state \in OnStates
Blinkers_off(b) == b.state \in OffStates

\* StateEntryDurationCondition._compare with > where the code has >=
StateEntryDurationCondition_compare_Strict(b, of, t) ==
    DurationOf(t - b.monitored[of].last_entry_time) > b.duration[of]

\* StateEntryDurationCondition._compare at time t
StateEntryDurationCondition_compare(b, of, t) ==
    DurationOf(t - b.monitored[of].last_entry_time) >= b.duration[of]

\* StateValueCondition._compare
StateValueCondition_compare(b, of, expected) == b.custom_value[of] = expected

\* ConditionalTransition.transiting at time t
BlinkerTransiting(b, tr, t) ==
    IF tr.type = "duration" THEN StateEntryDurationCondition_compare(b, tr.of, t)
    ELSE StateValueCondition_compare(b, tr.of, tr.expected)

\* leave the current state and enter next_state at time t (transit_to,
\* _transit_by): the exit hook, the assignment, the entry hook
Blinkers_transit(b, next_state, t) ==
    LET x == MonitoredState_exec_exiting_action(b.state, b.monitored[b.state], t, 0)
        m1 == [b.monitored EXCEPT ![b.state] = x.st]
        e == MonitoredState_exec_entering_action(next_state, m1[next_state], t)
    IN  [b |-> [b EXCEPT !.state = next_state, !.monitored = [m1 EXCEPT ![next_state] = e.st]],
         err |-> "none",
         log |-> x.log \o e.log]

\* an operation that raises err before touching the machine
Refused(b, err) == [b |-> b, err |-> err, log |-> <<>>]

\* track() taking the last registered transition that is true
Blinkers_track_LastWins(b, t) ==
    LET transitions == BlinkerTransitions(b.state)
        T == { k \in 1..Len(transitions) : BlinkerTransiting(b, transitions[k], t) }
    IN  IF T = {}
        THEN [b |-> b, err |-> "none",
              log |-> MonitoredState_exec_in_state_action(b.state, b.monitored[b.state], t).log]
        ELSE Blinkers_transit(b, transitions[CHOOSE k \in T : \A j \in T : j <= k].next_state, t)

\* FiniteStateMachine.track() on a Blinkers at time t
Blinkers_track(b, t) ==
    LET transitions == BlinkerTransitions(b.state)
        i == State_transiting(transitions,
                              [k \in 1..Len(transitions) |-> BlinkerTransiting(b, transitions[k], t)])
    IN  IF i = 0
        THEN [b |-> b, err |-> "none",
              log |-> MonitoredState_exec_in_state_action(b.state, b.monitored[b.state], t).log]
        ELSE Blinkers_transit(b, transitions[i].next_state, t)

\* FiniteStateMachine.reset() on a Blinkers, which is never RUNNING: the
\* initial state is assigned and no hook runs
Blinkers_reset(b) == [b |-> [b EXCEPT !.state = "off"], err |-> "none", log |-> <<>>]


----------------------------------------------------------------------------
(* blinkers.py: Blinkers, its commands *)

\* Python values given as arguments. A float q stands for q / Scale, an int
\* for itself, a bool for 1 (True) or 0 (False); Absent is a keyword not given.
PyFloat(q) == [kind |-> "float", val |-> q]
PyInt(v) == [kind |-> "int", val |-> v]
PyBool(v) == [kind |-> "bool", val |-> v]
PyStr == [kind |-> "str", val |-> 0]
Absent == [kind |-> "absent", val |-> 0]

\* isinstance(a, float), isinstance(a, int), isinstance(a, bool)
IsFloat(a) == a.kind = "float"
IsInt(a) == a.kind \in {"int", "bool"}
IsBool(a) == a.kind = "bool"
\* a <= 0 raises TypeError unless a is a number
Ordered(a) == a.kind \in {"float", "int", "bool"}
\* a <= 0, for a number
NotPositive(a) == a.val <= 0
\* a bool as stored in custom_value
BoolName(a) == IF a.val = 1 THEN "True" ELSE "False"
\* kwargs.get(key, default)
Get(a, default) == IF a = Absent THEN default ELSE a

\* the keyword arguments of turn_on / turn_off and of blink; `other` tells
\* whether a keyword the method does not know was given
NoTurnKwargs == [duration |-> Absent, other |-> FALSE]
NoBlinkKwargs == [cycle_duration |-> Absent, total_duration |-> Absent, n_cycles |-> Absent,
                  end_off |-> Absent, other |-> FALSE]
\* len(kwargs)
Given(a) == IF a = Absent THEN 0 ELSE 1
LenTurn(kw) == Given(kw.duration) + (IF kw.other THEN 1 ELSE 0)
LenBlink(kw) == Given(kw.cycle_duration) + Given(kw.total_duration) + Given(kw.n_cycles)
                + Given(kw.end_off) + (IF kw.other THEN 1 ELSE 0)

\* StateEntryDurationCondition.duration setter on the condition watching `of`
Blinkers_set_duration(b, of, duration) ==
    IF ~IsFloat(duration) THEN Refused(b, "TypeError")
    ELSE [b |-> [b EXCEPT !.duration[of] = duration.val], err |-> "none", log |-> <<>>]

\* turn_on / turn_off entering the timed state whatever the arguments
Blinkers_turn_AlwaysTimed(b, kw, hold, timed, t) ==
    IF LenTurn(kw) = 0 THEN Blinkers_transit(b, timed, t)
    ELSE IF kw.duration # Absent
         THEN LET r == Blinkers_set_duration(b, timed, kw.duration)
              IN  IF r.err # "none" THEN r ELSE Blinkers_transit(r.b, timed, t)
         ELSE Refused(b, "ValueError")

\* Blinkers.turn_on / turn_off: hold is the state without timer, timed the
\* one with its duration condition
Blinkers_turn(b, kw, hold, timed, t) ==
    IF LenTurn(kw) = 0 THEN Blinkers_transit(b, hold, t)
    ELSE IF kw.duration # Absent
         THEN LET r == Blinkers_set_duration(b, timed, kw.duration)
              IN  IF r.err # "none" THEN r ELSE Blinkers_transit(r.b, timed, t)
         ELSE Refused(b, "ValueError")

Blinkers_turn_on(b, kw, t) == Blinkers_turn(b, kw, "on", "on_duration", t)
Blinkers_turn_off(b, kw, t) == Blinkers_turn(b, kw, "off", "off_duration", t)

\* the whole cycle taken as the time on
OnDuration_WholeCycle(cycle, percent_on) == cycle

\* cycle_duration * percent_on, in quarters
OnDuration(cycle, percent_on) == (cycle * percent_on.val) \div Scale

\* the body of __blink_1 after its checks
Blinkers_begin_blink(b, cycle, percent_on, begin_on, t) ==
    LET on == OnDuration(cycle, percent_on)
        b1 == [b EXCEPT !.duration["blink_on"] = on,
                        !.duration["blink_off"] = cycle - on,
                        !.custom_value["blink_begin"] = BoolName(begin_on)]
    IN  Blinkers_transit(b1, "blink_begin", t)

\* __blink_1 assigning before checking begin_on
Blinkers_blink_1_LateCheck(b, cycle_duration, percent_on, begin_on, t) ==
    IF ~IsFloat(percent_on) \/ ~IsFloat(cycle_duration) THEN Refused(b, "TypeError")
    ELSE IF percent_on.val < 0 \/ percent_on.val > Scale THEN Refused(b, "ValueError")
    ELSE IF NotPositive(cycle_duration) THEN Refused(b, "ValueError")
    ELSE IF ~IsBool(begin_on)
         THEN Refused([b EXCEPT !.duration["blink_on"] =
                                   OnDuration(cycle_duration.val, percent_on)], "TypeError")
    ELSE Blinkers_begin_blink(b, cycle_duration.val, percent_on, begin_on, t)

\* Blinkers.__blink_1
Blinkers_blink_1(b, cycle_duration, percent_on, begin_on, t) ==
    IF ~IsFloat(percent_on) \/ ~IsFloat(cycle_duration) THEN Refused(b, "TypeError")
    ELSE IF percent_on.val < 0 \/ percent_on.val > Scale THEN Refused(b, "ValueError")
    ELSE IF NotPositive(cycle_duration) THEN Refused(b, "ValueError")
    ELSE IF ~IsBool(begin_on) THEN Refused(b, "TypeError")
    ELSE Blinkers_begin_blink(b, cycle_duration.val, percent_on, begin_on, t)

\* the body shared by __blink_2, __blink_3 and __blink_4 after their checks
Blinkers_begin_blink_stop(b, total, cycle, percent_on, begin_on, end_off, t) ==
    LET on == OnDuration(cycle, percent_on)
        b1 == [b EXCEPT !.custom_value["blink_stop_begin"] = BoolName(begin_on),
                        !.custom_value["blink_stop_end"] = BoolName(end_off),
                        !.duration["blink_stop_begin"] = total,
                        !.duration["blink_stop_on"] = on,
                        !.duration["blink_stop_off"] = cycle - on]
    IN  Blinkers_transit(b1, "blink_stop_begin", t)

\* Blinkers.__blink_2
Blinkers_blink_2(b, total_duration, cycle_duration, percent_on, begin_on, end_off, t) ==
    IF ~IsFloat(percent_on) THEN Refused(b, "TypeError")
    ELSE IF percent_on.val < 0 \/ percent_on.val > Scale THEN Refused(b, "ValueError")
    ELSE IF ~Ordered(cycle_duration) THEN Refused(b, "TypeError")
    ELSE IF NotPositive(cycle_duration) THEN Refused(b, "ValueError")
    ELSE IF ~Ordered(total_duration) THEN Refused(b, "TypeError")
    ELSE IF NotPositive(total_duration) THEN Refused(b, "ValueError")
    ELSE IF ~IsFloat(cycle_duration) \/ ~IsFloat(total_duration) THEN Refused(b, "TypeError")
    ELSE IF ~IsBool(begin_on) \/ ~IsBool(end_off) THEN Refused(b, "TypeError")
    ELSE Blinkers_begin_blink_stop(b, total_duration.val, cycle_duration.val, percent_on,
                                   begin_on, end_off, t)

\* __blink_3 taking the total duration as the cycle
Blinkers_blink_3_WholeTotal(b, total_duration, n_cycles, percent_on, begin_on, end_off, t) ==
    IF ~IsFloat(percent_on) THEN Refused(b, "TypeError")
    ELSE IF percent_on.val < 0 \/ percent_on.val > Scale THEN Refused(b, "ValueError")
    ELSE IF ~Ordered(total_duration) THEN Refused(b, "TypeError")
    ELSE IF NotPositive(total_duration) THEN Refused(b, "ValueError")
    ELSE IF ~IsFloat(total_duration) THEN Refused(b, "TypeError")
    ELSE IF ~IsBool(begin_on) \/ ~IsBool(end_off) THEN Refused(b, "TypeError")
    ELSE IF ~Ordered(n_cycles) THEN Refused(b, "TypeError")
    ELSE IF NotPositive(n_cycles) THEN Refused(b, "ValueError")
    ELSE IF ~IsInt(n_cycles) THEN Refused(b, "TypeError")
    ELSE Blinkers_begin_blink_stop(b, total_duration.val, total_duration.val,
                                   percent_on, begin_on, end_off, t)

\* Blinkers.__blink_3: cycle_duration = total_duration / n_cycles
Blinkers_blink_3(b, total_duration, n_cycles, percent_on, begin_on, end_off, t) ==
    IF ~IsFloat(percent_on) THEN Refused(b, "TypeError")
    ELSE IF percent_on.val < 0 \/ percent_on.val > Scale THEN Refused(b, "ValueError")
    ELSE IF ~Ordered(total_duration) THEN Refused(b, "TypeError")
    ELSE IF NotPositive(total_duration) THEN Refused(b, "ValueError")
    ELSE IF ~IsFloat(total_duration) THEN Refused(b, "TypeError")
    ELSE IF ~IsBool(begin_on) \/ ~IsBool(end_off) THEN Refused(b, "TypeError")
    ELSE IF ~Ordered(n_cycles) THEN Refused(b, "TypeError")
    ELSE IF NotPositive(n_cycles) THEN Refused(b, "ValueError")
    ELSE IF ~IsInt(n_cycles) THEN Refused(b, "TypeError")
    ELSE Blinkers_begin_blink_stop(b, total_duration.val, total_duration.val \div n_cycles.val,
                                   percent_on, begin_on, end_off, t)

\* __blink_4 with one cycle more: total_duration = (n_cycles + 1) * cycle_duration
Blinkers_blink_4_OneMore(b, n_cycles, cycle_duration, percent_on, begin_on, end_off, t) ==
    IF ~IsFloat(percent_on) THEN Refused(b, "TypeError")
    ELSE IF percent_on.val < 0 \/ percent_on.val > Scale THEN Refused(b, "ValueError")
    ELSE IF ~Ordered(cycle_duration) THEN Refused(b, "TypeError")
    ELSE IF NotPositive(cycle_duration) THEN Refused(b, "ValueError")
    ELSE IF ~IsFloat(cycle_duration) THEN Refused(b, "TypeError")
    ELSE IF ~IsBool(begin_on) \/ ~IsBool(end_off) THEN Refused(b, "ValueError")
    ELSE IF ~Ordered(n_cycles) THEN Refused(b, "TypeError")
    ELSE IF NotPositive(n_cycles) THEN Refused(b, "ValueError")
    ELSE IF ~IsInt(n_cycles) THEN Refused(b, "TypeError")
    ELSE Blinkers_begin_blink_stop(b, (n_cycles.val + 1) * cycle_duration.val, cycle_duration.val,
                                   percent_on, begin_on, end_off, t)

\* Blinkers.__blink_4: total_duration = n_cycles * cycle_duration
Blinkers_blink_4(b, n_cycles, cycle_duration, percent_on, begin_on, end_off, t) ==
    IF ~IsFloat(percent_on) THEN Refused(b, "TypeError")
    ELSE IF percent_on.val < 0 \/ percent_on.val > Scale THEN Refused(b, "ValueError")
    ELSE IF ~Ordered(cycle_duration) THEN Refused(b, "TypeError")
    ELSE IF NotPositive(cycle_duration) THEN Refused(b, "ValueError")
    ELSE IF ~IsFloat(cycle_duration) THEN Refused(b, "TypeError")
    ELSE IF ~IsBool(begin_on) \/ ~IsBool(end_off) THEN Refused(b, "ValueError")
    ELSE IF ~Ordered(n_cycles) THEN Refused(b, "TypeError")
    ELSE IF NotPositive(n_cycles) THEN Refused(b, "ValueError")
    ELSE IF ~IsInt(n_cycles) THEN Refused(b, "TypeError")
    ELSE Blinkers_begin_blink_stop(b, n_cycles.val * cycle_duration.val, cycle_duration.val,
                                   percent_on, begin_on, end_off, t)

\* Blinkers.blink: the choice of the policy from the keywords given
Blinkers_blink(b, percent_on, begin_on, kw, t) ==
    IF LenBlink(kw) = 0
    THEN Blinkers_blink_1(b, PyFloat(Scale), percent_on, begin_on, t)
    ELSE IF kw.cycle_duration # Absent /\ LenBlink(kw) = 1
    THEN Blinkers_blink_1(b, kw.cycle_duration, percent_on, begin_on, t)
    ELSE IF kw.total_duration # Absent /\ kw.n_cycles # Absent
    THEN Blinkers_blink_3(b, kw.total_duration, kw.n_cycles, percent_on, begin_on,
                          Get(kw.end_off, PyBool(1)), t)
    ELSE IF kw.total_duration # Absent
    THEN Blinkers_blink_2(b, kw.total_duration, Get(kw.cycle_duration, PyFloat(Scale)),
                          percent_on, begin_on, Get(kw.end_off, PyBool(1)), t)
    ELSE IF kw.n_cycles # Absent
    THEN Blinkers_blink_4(b, kw.n_cycles, Get(kw.cycle_duration, PyFloat(Scale)),
                          percent_on, begin_on, Get(kw.end_off, PyBool(1)), t)
    ELSE Refused(b, "ValueError")


----------------------------------------------------------------------------
(* blinkers.py: the calls made on a Blinkers *)

\* a call of turn_on, turn_off or blink with its arguments
TurnCall(op, kw) ==
    [op |-> op, percent_on |-> Absent, begin_on |-> Absent, turn |-> kw, kw |-> NoBlinkKwargs]
BlinkCall(percent_on, begin_on, kw) ==
    [op |-> "blink", percent_on |-> percent_on, begin_on |-> begin_on, turn |-> NoTurnKwargs,
     kw |-> kw]

\* keyword arguments of turn_on / turn_off: none, an unknown keyword, and
\* durations of 1 and 2 clock units, 0.0 and the int 1
TurnKwargs ==
    { NoTurnKwargs, [NoTurnKwargs EXCEPT !.other = TRUE] }
    \cup { [NoTurnKwargs EXCEPT !.duration = d] :
             d \in {PyFloat(Scale), PyFloat(2 * Scale), PyFloat(0), PyInt(1)} }
TurnCalls == { TurnCall(op, kw) : op \in {"turn_on", "turn_off"}, kw \in TurnKwargs }

\* keyword arguments of blink that pass validation: the continuous policy
\* with the default cycle and a cycle of 2, and the bounded policies over a
\* total of 2 clock units
EndOffs == {Absent, PyBool(0)}
ContinuousKwargs == { NoBlinkKwargs, [NoBlinkKwargs EXCEPT !.cycle_duration = PyFloat(2 * Scale)] }
BoundedKwargs ==
    { [NoBlinkKwargs EXCEPT !.total_duration = PyFloat(2 * Scale), !.cycle_duration = c,
                            !.end_off = e] : c \in {Absent, PyFloat(2 * Scale)}, e \in EndOffs }
    \cup { [NoBlinkKwargs EXCEPT !.total_duration = PyFloat(2 * Scale), !.n_cycles = PyInt(n),
                                 !.end_off = e] : n \in 1..2, e \in EndOffs }
    \cup { [NoBlinkKwargs EXCEPT !.n_cycles = PyInt(2), !.end_off = e] : e \in EndOffs }
    \cup { [NoBlinkKwargs EXCEPT !.n_cycles = PyInt(1), !.cycle_duration = PyFloat(2 * Scale),
                                 !.end_off = e] : e \in EndOffs }
\* percent_on 0.0, 0.5 and 1.0
Percents == {PyFloat(0), PyFloat(Scale \div 2), PyFloat(Scale)}
ValidBlinkCalls ==
    { BlinkCall(p, PyBool(v), kw) : p \in Percents, v \in 0..1, kw \in ContinuousKwargs }
    \cup { BlinkCall(PyFloat(Scale \div 2), PyBool(v), kw) : v \in 0..1, kw \in BoundedKwargs }

\* blink calls with one argument, or the combination of keywords, at fault
HalfOn(kw) == BlinkCall(PyFloat(Scale \div 2), PyBool(1), kw)
Total2 == [NoBlinkKwargs EXCEPT !.total_duration = PyFloat(2 * Scale)]
InvalidBlinkCalls ==
    { BlinkCall(p, PyBool(1), kw) : p \in {PyInt(1), PyFloat(Scale + 2), PyFloat(0 - 2), PyBool(1)},
                                    kw \in {NoBlinkKwargs, Total2} }
    \cup { BlinkCall(PyFloat(Scale), b, kw) : b \in {PyInt(1), PyStr},
                                              kw \in {NoBlinkKwargs, Total2} }
    \cup { HalfOn([kw EXCEPT !.cycle_duration = c]) :
             c \in {PyFloat(0), PyFloat(0 - Scale), PyInt(1), PyStr},
             kw \in {NoBlinkKwargs, Total2, [NoBlinkKwargs EXCEPT !.n_cycles = PyInt(2)]} }
    \cup { HalfOn([kw EXCEPT !.total_duration = d]) :
             d \in {PyFloat(0), PyInt(2), PyStr},
             kw \in {NoBlinkKwargs, [NoBlinkKwargs EXCEPT !.n_cycles = PyInt(2)]} }
    \cup { HalfOn([kw EXCEPT !.n_cycles = n]) :
             n \in {PyInt(0), PyInt(0 - 1), PyFloat(2 * Scale), PyStr},
             kw \in {NoBlinkKwargs, Total2} }
    \cup { HalfOn([kw EXCEPT !.end_off = PyInt(0)]) :
             kw \in {Total2, [NoBlinkKwargs EXCEPT !.n_cycles = PyInt(2)],
                     [Total2 EXCEPT !.n_cycles = PyInt(2)]} }
    \cup { HalfOn([NoBlinkKwargs EXCEPT !.other = TRUE]),
           HalfOn([NoBlinkKwargs EXCEPT !.end_off = PyBool(1)]),
           HalfOn([NoBlinkKwargs EXCEPT !.cycle_duration = PyFloat(Scale), !.end_off = PyBool(1)]),
           HalfOn([NoBlinkKwargs EXCEPT !.cycle_duration = PyFloat(Scale), !.other = TRUE]) }
BlinkCalls == ValidBlinkCalls \cup InvalidBlinkCalls

\* the call applied to machine b at time t
Blinkers_call(b, call, t) ==
    CASE call.op = "turn_on" -> Blinkers_turn_on(b, call.turn, t)
      [] call.op = "turn_off" -> Blinkers_turn_off(b, call.turn, t)
      [] call.op = "blink" -> Blinkers_blink(b, call.percent_on, call.begin_on, call.kw, t)
      [] call.op = "reset" -> Blinkers_reset(b)
      [] OTHER -> Blinkers_track(b, t)

NoCall == TurnCall("none", NoTurnKwargs)
ResetCall == TurnCall("reset", NoTurnKwargs)
TrackCall == TurnCall("track", NoTurnKwargs)

NoBlkOp == [call |-> NoCall, err |-> "none", log |-> <<>>, at |-> 0, pre |-> NewBlinkers(0)]
NoBlkHist == [commands |-> 0, phase |-> "setup", command |-> NoCall, at |-> 0, trace |-> <<>>]

BlkInit ==
    /\ blinker = NewBlinkers(0)
    /\ blk_last = NoBlkOp
    /\ blk_hist = NoBlkHist


----------------------------------------------------------------------------
(* blinkers.py: one command of a Blinkers under observation *)

\* commands made before the observed one, so that it starts from several states
SetupCalls ==
    { TurnCall("turn_on", NoTurnKwargs),
      TurnCall("turn_off", [NoTurnKwargs EXCEPT !.duration = PyFloat(Scale)]),
      BlinkCall(PyFloat(Scale \div 2), PyBool(0), NoBlinkKwargs),
      BlinkCall(PyFloat(Scale \div 2), PyBool(1), [Total2 EXCEPT !.end_off = PyBool(0)]) }

\* the observed commands: the turn_on, turn_off and blink calls that succeed
RunCalls ==
    { call \in TurnCalls : ~call.turn.other /\ call.turn.duration.kind \in {"absent", "float"} }
    \cup ValidBlinkCalls


----------------------------------------------------------------------------
(* blinkers.py: SideBlinkers *)

\* SideBlinkers.Side
Sides == {"LEFT", "RIGHT", "BOTH", "LEFT_RECIPROCAL", "RIGHT_RECIPROCAL"}

\* SideBlinkers.__init__ at time t
NewSideBlinkers(t) == [left |-> NewBlinkers(t), right |-> NewBlinkers(t)]

\* SideBlinkers.on(side), SideBlinkers.off(side), for LEFT and RIGHT
SideBlinkers_on(sb, side) == IF side = "LEFT" THEN Blinkers_on(sb.left) ELSE Blinkers_on(sb.right)
SideBlinkers_off(sb, side) == IF side = "LEFT" THEN Blinkers_off(sb.left) ELSE Blinkers_off(sb.right)

\* on(side) / off(side) answering for every side
SideBlinkers_query_AnySide(sb, op, side) ==
    [err |-> "none",
     ret |-> IF op = "on" THEN BoolName([val |-> IF SideBlinkers_on(sb, side) THEN 1 ELSE 0])
             ELSE BoolName([val |-> IF SideBlinkers_off(sb, side) THEN 1 ELSE 0])]

\* SideBlinkers.on(side) and SideBlinkers.off(side) as the caller sees them:
\* the status of the side's channel, or ValueError for a side that is
\* neither LEFT nor RIGHT
SideBlinkers_query(sb, op, side) ==
    IF side \in {"LEFT", "RIGHT"}
    THEN [err |-> "none",
          ret |-> IF op = "on" THEN BoolName([val |-> IF SideBlinkers_on(sb, side) THEN 1 ELSE 0])
                  ELSE BoolName([val |-> IF SideBlinkers_off(sb, side) THEN 1 ELSE 0])]
    ELSE [err |-> "ValueError", ret |-> "None"]

\* a tuple of lambdas' body: the call on the left Blinkers at time tl, then,
\* unless it raised, the call on the right one at time tr; a channel whose
\* call is NoCall is not touched. The answer is what each Blinkers answered.
SideBlinkers_apply(sb, lcall, rcall, tl, tr) ==
    LET l == IF lcall = NoCall THEN Refused(sb.left, "none") ELSE Blinkers_call(sb.left, lcall, tl)
    IN  [left |-> l,
         right |-> IF rcall = NoCall \/ l.err # "none" THEN Refused(sb.right, "none")
                   ELSE Blinkers_call(sb.right, rcall, tr)]
\* what the caller of a SideBlinkers operation sees raised
SideBlinkers_raised(r) == IF r.left.err # "none" THEN r.left.err ELSE r.right.err

\* SideBlinkers.turn_on(side, **kw) turning every channel on
SideBlinkers_turn_on_NoReciprocal(sb, side, kw, tl, tr) ==
    LET on == TurnCall("turn_on", kw)
    IN  CASE side = "LEFT" -> SideBlinkers_apply(sb, on, NoCall, tl, tr)
          [] side = "RIGHT" -> SideBlinkers_apply(sb, NoCall, on, tl, tr)
          [] OTHER -> SideBlinkers_apply(sb, on, on, tl, tr)

\* SideBlinkers.turn_on(side, **kw)
SideBlinkers_turn_on(sb, side, kw, tl, tr) ==
    LET on == TurnCall("turn_on", kw)
        off == TurnCall("turn_off", kw)
    IN  CASE side = "LEFT" -> SideBlinkers_apply(sb, on, NoCall, tl, tr)
          [] side = "RIGHT" -> SideBlinkers_apply(sb, NoCall, on, tl, tr)
          [] side = "BOTH" -> SideBlinkers_apply(sb, on, on, tl, tr)
          [] side = "LEFT_RECIPROCAL" -> SideBlinkers_apply(sb, on, off, tl, tr)
          [] OTHER -> SideBlinkers_apply(sb, off, on, tl, tr)

\* SideBlinkers.turn_off(side, **kw)
SideBlinkers_turn_off(sb, side, kw, tl, tr) ==
    LET on == TurnCall("turn_on", kw)
        off == TurnCall("turn_off", kw)
    IN  CASE side = "LEFT" -> SideBlinkers_apply(sb, off, NoCall, tl, tr)
          [] side = "RIGHT" -> SideBlinkers_apply(sb, NoCall, off, tl, tr)
          [] side = "BOTH" -> SideBlinkers_apply(sb, off, off, tl, tr)
          [] side = "LEFT_RECIPROCAL" -> SideBlinkers_apply(sb, off, on, tl, tr)
          [] OTHER -> SideBlinkers_apply(sb, on, off, tl, tr)

\* 1 - percent_on: a float for a float, an int for an int or a bool
OneMinus(a) ==
    IF a.kind = "float" THEN PyFloat(Scale - a.val) ELSE PyInt(1 - a.val)
\* not begin_on: always a bool; a str argument is not empty
NotOf(a) == IF a.kind = "str" \/ a.val # 0 THEN PyBool(0) ELSE PyBool(1)

\* SideBlinkers.blink(side, percent_on, begin_on, **kw): both Blinkers are
\* reset, then the side's Blinkers are told to blink
SideBlinkers_blink(sb, side, percent_on, begin_on, kw, tl, tr) ==
    LET sb0 == [left |-> Blinkers_reset(sb.left).b, right |-> Blinkers_reset(sb.right).b]
        same == BlinkCall(percent_on, begin_on, kw)
        inverse == BlinkCall(OneMinus(percent_on), NotOf(begin_on), kw)
    IN  CASE side = "LEFT" -> SideBlinkers_apply(sb0, same, NoCall, tl, tr)
          [] side = "RIGHT" -> SideBlinkers_apply(sb0, NoCall, same, tl, tr)
          [] side = "BOTH" -> SideBlinkers_apply(sb0, same, same, tl, tr)
          [] side = "LEFT_RECIPROCAL" -> SideBlinkers_apply(sb0, same, inverse, tl, tr)
          [] OTHER -> SideBlinkers_apply(sb0, inverse, same, tl, tr)

\* SideBlinkers.track(): the left Blinkers at time tl, then the right one at tr
SideBlinkers_track(sb, tl, tr) == SideBlinkers_apply(sb, TrackCall, TrackCall, tl, tr)

\* a call of SideBlinkers.turn_on, turn_off or blink
SideCall(side, call) == [side |-> side, call |-> call]
SideBlinkers_call(sb, c, tl, tr) ==
    CASE c.call.op = "turn_on" -> SideBlinkers_turn_on(sb, c.side, c.call.turn, tl, tr)
      [] c.call.op = "turn_off" -> SideBlinkers_turn_off(sb, c.side, c.call.turn, tl, tr)
      [] c.call.op = "blink" ->
           SideBlinkers_blink(sb, c.side, c.call.percent_on, c.call.begin_on, c.call.kw, tl, tr)
      [] OTHER -> SideBlinkers_track(sb, tl, tr)

\* the calls observed, on BOTH and the two reciprocal sides: turn_on and
\* turn_off without keyword, for 1 clock unit and with an int duration;
\* blinks continuous (cycle 1 and 2) and bounded (total 2) with percent_on
\* 0.5, one with percent_on 0.0 and one with a begin_on that is not a bool
SideTurnKwargs ==
    { NoTurnKwargs } \cup { [NoTurnKwargs EXCEPT !.duration = d] : d \in {PyFloat(Scale), PyInt(1)} }
SideBlinkKwargs == ContinuousKwargs \cup {Total2}
\* the calls observed on one side only: turn_on(), turn_off(duration=1.0) and
\* blink(0.5, True)
SideOneCalls ==
    { SideCall(side, call) :
        side \in {"LEFT", "RIGHT"},
        call \in { TurnCall("turn_on", NoTurnKwargs),
                   TurnCall("turn_off", [NoTurnKwargs EXCEPT !.duration = PyFloat(Scale)]),
                   BlinkCall(PyFloat(Scale \div 2), PyBool(1), NoBlinkKwargs) } }
SideCalls ==
    { SideCall(side, TurnCall(op, kw)) :
        side \in Sides \ {"LEFT", "RIGHT"}, op \in {"turn_on", "turn_off"}, kw \in SideTurnKwargs }
    \cup { SideCall(side, BlinkCall(PyFloat(Scale \div 2), PyBool(v), kw)) :
             side \in Sides \ {"LEFT", "RIGHT"}, v \in 0..1, kw \in SideBlinkKwargs }
    \cup { SideCall(side, BlinkCall(PyFloat(0), PyBool(1), NoBlinkKwargs)) :
             side \in {"LEFT_RECIPROCAL", "RIGHT_RECIPROCAL"} }
    \cup { SideCall(side, BlinkCall(PyFloat(Scale), PyStr, NoBlinkKwargs)) : side \in Sides }
    \cup { SideCall(side, BlinkCall(PyFloat(Scale + 2), PyBool(1), NoBlinkKwargs)) :
             side \in {"LEFT_RECIPROCAL", "RIGHT_RECIPROCAL"} }
    \cup SideOneCalls
\* commands made before the observed one
SideSetupCalls ==
    { SideCall("BOTH", TurnCall("turn_on", NoTurnKwargs)),
      SideCall("LEFT", BlinkCall(PyFloat(Scale \div 2), PyBool(1), NoBlinkKwargs)),
      SideCall("RIGHT", TurnCall("turn_off", [NoTurnKwargs EXCEPT !.duration = PyFloat(Scale)])) }

\* the clock may advance by at most this much between the call on the left
\* Blinkers and the call on the right one: each reads perf_counter() itself
Lags == 0..1

NoSideCall == SideCall("none", NoCall)
NoSideOp == [call |-> NoSideCall, err |-> "none", ret |-> "None", left_at |-> 0, right_at |-> 0]
NoSideHist == [phase |-> "setup", commands |-> 0, command |-> NoSideCall, err |-> "none",
               left_at |-> 0, right_at |-> 0, trace |-> <<>>,
               pre |-> NewSideBlinkers(0), left_log |-> <<>>, right_log |-> <<>>]

SideInit ==
    /\ sides = NewSideBlinkers(0)
    /\ side_last = NoSideOp
    /\ side_hist = NoSideHist

----------------------------------------------------------------------------
(* state.py: State.Parameters and the hooks of a State *)

\* State.Parameters.__init__
State_Parameters(terminal, entering, exiting) ==
    [terminal |-> terminal,
     do_in_state_action_when_entering |-> entering,
     do_in_state_action_when_exiting |-> exiting]
AllParameters ==
    { State_Parameters(t, e, x) : t \in BOOLEAN, e \in BOOLEAN, x \in BOOLEAN }

\* State._exec_entering_action, _exec_in_state_action, _exec_exiting_action
\* of the State s built with the Parameters p: the hook methods they call
State_exec_entering_action(s, p) == <<Ev("_do_entering_action", s, 0)>>
State_exec_in_state_action(s, p) == <<Ev("_do_in_state_action", s, 0)>>
State_exec_exiting_action(s, p) == <<Ev("_do_exiting_action", s, 0)>>

\* the hook methods run by the calls the machine made, in order
RECURSIVE StateHooks(_, _)
StateHooks(calls, parameters) ==
    IF calls = <<>> THEN <<>>
    ELSE LET c == Head(calls)
             p == parameters[c.state]
         IN  (CASE c.hook = "entry" -> State_exec_entering_action(c.state, p)
                [] c.hook = "in_state" -> State_exec_in_state_action(c.state, p)
                [] c.hook = "exit" -> State_exec_exiting_action(c.state, p)
                [] OTHER -> <<>>)
             \o StateHooks(Tail(calls), parameters)

\* the machine: A and B, each with one transition to the other
ParStates == {"A", "B"}
ParLayout(parameters) ==
    [states |-> ParStates, initial_state |-> "A",
     transition |-> [s \in States |-> IF s = "A" THEN <<"B">> ELSE IF s = "B" THEN <<"A">> ELSE <<>>],
     terminal |-> [s \in States |-> s \in ParStates /\ parameters[s].terminal]]

NoParOp == [op |-> "none", pre |-> None, moved |-> FALSE, log |-> <<>>]
ParInit ==
    /\ par_parameters = [s \in ParStates |-> State_Parameters(FALSE, FALSE, FALSE)]
    /\ par_state = None
    /\ par_last = NoParOp

----------------------------------------------------------------------------
(* c64.py: RobotTaskState and its nested machine *)

\* The parent machine: the home state A with a transition to each of the task
\* state B and the message state C, which both go back to A. The nested
\* machine: the stop state A with a transition to each of the moving states B
\* and C, which both go back to A.
HomeState == "A"
TaskState == "B"
ParentLayout ==
    [states |-> States, initial_state |-> HomeState,
     transition |-> [s \in States |-> IF s = HomeState THEN <<"B", "C">> ELSE <<HomeState>>],
     terminal |-> [s \in States |-> FALSE]]
ChildLayout ==
    [states |-> States, initial_state |-> "A",
     transition |-> [s \in States |-> IF s = "A" THEN <<"B", "C">> ELSE <<"A">>],
     terminal |-> [s \in States |-> FALSE]]

\* what a hook of the task state does to the nested machine, in state child:
\* its new state, the track() calls made on it, the hooks it ran
Untracked(child) == [child |-> child, tracks |-> 0, log |-> <<>>]

\* an entry hook that tracks the nested machine as well
RobotTaskState_do_entering_action_Tracking(child, gc) ==
    LET r == TrackResult(ChildLayout, child, IDLE, gc, FALSE)
    IN  [child |-> r.cas, tracks |-> 1, log |-> r.log]

\* RobotTaskState._do_entering_action: the entering actions, then setup()
RobotTaskState_do_entering_action(child, gc) == Untracked(child)

\* RobotTaskState._do_in_state_action: the in-state actions and robot.track(),
\* then the nested machine's track(); gc is the value of its transitions
RobotTaskState_do_in_state_action(child, gc) ==
    LET r == TrackResult(ChildLayout, child, IDLE, gc, FALSE)
    IN  [child |-> r.cas, tracks |-> 1, log |-> r.log]

\* RobotTaskState._do_exiting_action: the exiting actions, then clean_up()
RobotTaskState_do_exiting_action(child, gc) == Untracked(child)

\* the hooks run by one operation of the parent machine, in order, applied
\* to the nested machine: only the task state's hooks reach it
RECURSIVE TaskHooks(_, _, _)
TaskHooks(calls, child, gc) ==
    IF calls = <<>> THEN Untracked(child)
    ELSE LET c == Head(calls)
             h == IF c.state # TaskState THEN Untracked(child)
                  ELSE CASE c.hook = "entry" -> RobotTaskState_do_entering_action(child, gc)
                         [] c.hook = "in_state" -> RobotTaskState_do_in_state_action(child, gc)
                         [] c.hook = "exit" -> RobotTaskState_do_exiting_action(child, gc)
                         [] OTHER -> Untracked(child)
             rest == TaskHooks(Tail(calls), h.child, gc)
         IN  [child |-> rest.child, tracks |-> h.tracks + rest.tracks, log |-> h.log \o rest.log]

NoNestOp == [op |-> "none", guards |-> NoGuards, child_guards |-> NoGuards,
             pre_parent |-> HomeState, pre_child |-> "A", tracks |-> 0, log |-> <<>>]
NestInit ==
    /\ nest_parent = ResetResult(ParentLayout, None, UNITIALIZED).cas
    /\ nest_child = ResetResult(ChildLayout, None, UNITIALIZED).cas
    /\ nest_last = NoNestOp

----------------------------------------------------------------------------
(* Operations *)

Init ==
    /\ layout = NoLayout
    /\ current_applicative_state = None
    /\ current_operational_state = UNITIALIZED
    /\ pc = "new"
    /\ now = 0
    /\ current_time = 0
    /\ elapsed_time = 0
    /\ time_budget = NoBudget
    /\ log = <<>>
    /\ last = NoOp
    /\ MonInit
    /\ ActInit
    /\ CountInit
    /\ TimedInit
    /\ CondInit
    /\ LayInit
    /\ BlkInit
    /\ SideInit
    /\ ParInit
    /\ NestInit

StartLocals == <<current_time, elapsed_time, time_budget>>

\* FiniteStateMachine(layout, unitialized)
Construct(arg, L, unitialized) ==
    /\ pc = "new"
    /\ LET r == ConstructResult(arg, L, unitialized)
           z == ResetResult(L, None, UNITIALIZED)
       IN  /\ last' = [NoOp EXCEPT !.op = "construct", !.arg = arg,
                                   !.arg2 = IF unitialized THEN "True" ELSE "False",
                                   !.layout = IF arg = "Layout" THEN L ELSE NoLayout,
                                   !.err = r.err]
           /\ IF r.ok
              THEN /\ layout' = L
                   /\ pc' = "idle"
                   /\ current_applicative_state' = IF unitialized THEN z.cas ELSE None
                   /\ current_operational_state' = IF unitialized THEN z.ops ELSE UNITIALIZED
                   /\ log' = IF unitialized THEN z.log ELSE <<>>
              ELSE /\ log' = <<>>
                   /\ UNCHANGED <<layout, pc, current_applicative_state,
                                  current_operational_state>>
    /\ UNCHANGED <<now, StartLocals>>
    /\ FsmFrame

Before == [NoOp EXCEPT !.pre_state = current_applicative_state,
                       !.pre_op = current_operational_state]

\* fsm.reset()
Reset ==
    /\ pc = "idle"
    /\ LET z == ResetResult(layout, current_applicative_state, current_operational_state)
       IN  /\ current_applicative_state' = z.cas
           /\ current_operational_state' = z.ops
           /\ log' = z.log
    /\ last' = [Before EXCEPT !.op = "reset"]
    /\ UNCHANGED <<layout, pc, now, StartLocals>>
    /\ FsmFrame

\* fsm.transit_to(state)
TransitTo(state) ==
    /\ pc = "idle"
    /\ LET r == TransitToResult(current_applicative_state, state)
       IN  /\ current_applicative_state' = r.cas
           /\ log' = r.log
           /\ last' = [Before EXCEPT !.op = "transit_to", !.arg = state, !.err = r.err]
    /\ UNCHANGED <<layout, pc, now, current_operational_state, StartLocals>>
    /\ FsmFrame

\* fsm.track(), called by the application
Track(g, stop) ==
    /\ pc = "idle"
    /\ LET r == TrackResult(layout, current_applicative_state, current_operational_state, g, stop)
       IN  /\ current_applicative_state' = r.cas
           /\ current_operational_state' = r.ops
           /\ log' = r.log
           /\ last' = [Before EXCEPT !.op = "track", !.guards = g,
                                     !.stop = stop /\ r.log # <<>>,
                                     !.ret = r.ret, !.err = r.err]
    /\ UNCHANGED <<layout, pc, now, StartLocals>>
    /\ FsmFrame

\* fsm.stop(), called by the application
Stop ==
    /\ pc = "idle"
    /\ current_operational_state' = IDLE
    /\ log' = <<>>
    /\ last' = [Before EXCEPT !.op = "stop"]
    /\ UNCHANGED <<layout, pc, now, current_applicative_state, StartLocals>>
    /\ FsmFrame

\* fsm.start(reset, time_budget), up to the first evaluation of the loop condition
Start(reset, budget) ==
    /\ pc = "idle"
    /\ IF StartRejects(reset, budget)
       THEN /\ last' = [Before EXCEPT !.op = "start", !.arg = reset, !.arg2 = budget.kind,
                                      !.val = budget.val, !.err = "TypeError"]
            /\ log' = <<>>
            /\ UNCHANGED <<pc, current_applicative_state, current_operational_state,
                           StartLocals>>
       ELSE LET z == ResetResult(layout, current_applicative_state, current_operational_state)
            IN  /\ current_time' = now
                /\ elapsed_time' = 0
                /\ time_budget' = budget
                /\ current_applicative_state' =
                       IF reset = "True" THEN z.cas ELSE current_applicative_state
                /\ log' = IF reset = "True" THEN z.log ELSE <<>>
                /\ current_operational_state' = RUNNING
                /\ pc' = "loop"
                /\ last' = [Before EXCEPT !.op = "start", !.arg = reset, !.arg2 = budget.kind,
                                          !.val = budget.val]
    /\ UNCHANGED <<layout, now>>
    /\ FsmFrame

\* start(): the loop condition is false before track() is called
StartBudgetExhausted ==
    /\ pc = "loop"
    /\ ~WithinBudget(time_budget, elapsed_time)
    /\ pc' = "idle"
    /\ current_time' = 0 /\ elapsed_time' = 0 /\ time_budget' = NoBudget
    /\ log' = <<>>
    /\ last' = [Before EXCEPT !.op = "start_return"]
    /\ UNCHANGED <<layout, now, current_applicative_state, current_operational_state>>
    /\ FsmFrame

\* start(): one evaluation of the loop condition that calls track(); dt is the
\* time the call takes.
StartTrack(g, stop, dt) ==
    /\ pc = "loop"
    /\ WithinBudget(time_budget, elapsed_time)
    /\ now + dt <= MaxClock
    /\ now' = now + dt
    /\ LET r == TrackResult(layout, current_applicative_state, current_operational_state, g, stop)
           continue == LoopContinues(r)
       IN  /\ current_applicative_state' = r.cas
           /\ current_operational_state' = r.ops
           /\ log' = r.log
           /\ last' = [Before EXCEPT !.op = "track", !.guards = g, !.in_start = TRUE,
                                     !.stop = stop /\ r.log # <<>>,
                                     !.ret = r.ret, !.err = r.err]
           /\ IF continue
              THEN /\ elapsed_time' = now' - current_time
                   /\ pc' = "loop"
                   /\ UNCHANGED <<current_time, time_budget>>
              ELSE /\ pc' = "idle"
                   /\ current_time' = 0 /\ elapsed_time' = 0 /\ time_budget' = NoBudget
    /\ UNCHANGED layout
    /\ FsmFrame

Next ==
    \/ \E arg \in {"Layout", "NotALayout"}, L \in ValidInputLayouts, u \in BOOLEAN :
           Construct(arg, L, u)
    \/ Reset
    \/ \E state \in TransitArgs : TransitTo(state)
    \/ \E g \in Guards, stop \in BOOLEAN : Track(g, stop)
    \/ Stop
    \/ \E reset \in ResetArgs, budget \in TimeBudgets : Start(reset, budget)
    \/ StartBudgetExhausted
    \/ \E g \in Guards, stop \in BOOLEAN, dt \in 0..1 : StartTrack(g, stop, dt)

Spec == Init /\ [][Next]_vars

\* start(reset, time_budget) called early enough for the budget to run out
\* before the clock reaches MaxClock
StartInTime(reset, budget) ==
    /\ budget.kind = "float" => now + budget.val <= MaxClock
    /\ Start(reset, budget)

\* a step of the loop of start() during which the clock advances
StartTrackAdvancing == \E g \in Guards, stop \in BOOLEAN : StartTrack(g, stop, 1)

NextStart ==
    \/ \E arg \in {"Layout", "NotALayout"}, L \in ValidInputLayouts, u \in BOOLEAN :
           Construct(arg, L, u)
    \/ Reset
    \/ \E state \in TransitArgs : TransitTo(state)
    \/ \E g \in Guards, stop \in BOOLEAN : Track(g, stop)
    \/ Stop
    \/ \E reset \in ResetArgs, budget \in TimeBudgets : StartInTime(reset, budget)
    \/ StartBudgetExhausted
    \/ \E g \in Guards, stop \in BOOLEAN, dt \in 0..1 : StartTrack(g, stop, dt)

\* The loop of start() goes on as long as its condition holds, every hook
\* returning, and the clock advances while it runs.
SpecStart ==
    /\ Init
    /\ [][NextStart]_vars
    /\ WF_vars(StartBudgetExhausted)
    /\ WF_vars(StartTrackAdvancing)

----------------------------------------------------------------------------
(* Operations on the machine of monitored states *)

MonBefore(op, arg) ==
    [NoMonOp EXCEPT !.op = op, !.arg = arg, !.at = now,
                    !.pre = monitored_state, !.pre_tr = monitored_transition]

\* leave state a and enter state b (fsm.py, _transit_by and transit_to), the
\* exiting callbacks taking d; tr is the transition taken, if any
MonMove(a, b, tr, d) ==
    LET x == MonitoredState_exec_exiting_action(a, monitored_state[a], now, d)
        ms1 == [monitored_state EXCEPT ![a] = x.st]
        e == MonitoredState_exec_entering_action(b, ms1[b], now + d)
    IN  /\ monitored_state' = [ms1 EXCEPT ![b] = e.st]
        /\ monitored_transition' =
              IF tr = "" THEN monitored_transition
              ELSE [monitored_transition EXCEPT
                       ![tr] = MonitoredTransition_exec_transiting_action(@, now + d)]
        /\ mon_log' = x.log \o e.log
        /\ mon_state' = b
        /\ now' = now + d
        /\ mon_hist' = [mon_hist EXCEPT !.entries[b] = @ + 1, !.ops = @ + 1,
                                        !.transits = IF tr = "" THEN @
                                                     ELSE [@ EXCEPT ![tr] = @ + 1]]

\* track() on the machine: g is the value of the transition's condition
MonTrack(g, d) ==
    /\ mon_hist.ops < MaxMonOps
    /\ now + d <= MaxClock
    /\ mon_last' = [MonBefore("track", "") EXCEPT !.fired = g]
    /\ IF g
       THEN MonMove(mon_state, MonTarget(MonOut(mon_state)), MonOut(mon_state), d)
       ELSE /\ mon_log' = MonitoredState_exec_in_state_action(
                              mon_state, monitored_state[mon_state], now).log
            /\ mon_hist' = [mon_hist EXCEPT !.ops = @ + 1]
            /\ UNCHANGED <<mon_state, monitored_state, monitored_transition, now>>
    /\ MonFrame

\* transit_to(state) on the machine
MonTransitTo(state, d) ==
    /\ mon_hist.ops < MaxMonOps
    /\ now + d <= MaxClock
    /\ mon_last' = MonBefore("transit_to", state)
    /\ MonMove(mon_state, state, "", d)
    /\ MonFrame

\* state.reset_entry_count()
MonResetEntryCount(s) ==
    /\ mon_hist.ops < MaxMonOps
    /\ monitored_state' = [monitored_state EXCEPT ![s] = MonitoredState_reset_entry_count(@)]
    /\ mon_hist' = [mon_hist EXCEPT !.count_reset = @ \cup {s}, !.ops = @ + 1]
    /\ mon_last' = MonBefore("reset_entry_count", s)
    /\ mon_log' = <<>>
    /\ UNCHANGED <<mon_state, monitored_transition, now>>
    /\ MonFrame

\* transition.reset_transit_count()
MonResetTransitCount(t) ==
    /\ mon_hist.ops < MaxMonOps
    /\ monitored_transition' =
          [monitored_transition EXCEPT ![t] = MonitoredTransition_reset_transit_count(@)]
    /\ mon_hist' = [mon_hist EXCEPT !.transit_reset = @ \cup {t}, !.ops = @ + 1]
    /\ mon_last' = MonBefore("reset_transit_count", t)
    /\ mon_log' = <<>>
    /\ UNCHANGED <<mon_state, monitored_state, now>>
    /\ MonFrame

\* time passes between two operations
Tick ==
    /\ now < MaxClock
    /\ now' = now + 1
    /\ UNCHANGED mon_vars
    /\ MonFrame

NextMon ==
    \/ \E g \in BOOLEAN, d \in 0..1 : MonTrack(g, d)
    \/ \E state \in MonStates, d \in 0..1 : MonTransitTo(state, d)
    \/ \E s \in MonStates : MonResetEntryCount(s)
    \/ \E t \in MonTransitions : MonResetTransitCount(t)
    \/ Tick

SpecMon == Init /\ [][NextMon]_vars


----------------------------------------------------------------------------
(* Operations on the machine of action states *)

\* the number of callbacks and transitions registered so far
Registered ==
    LET Sizes(s) == Len(action_state[s].entering) + Len(action_state[s].in_state)
                    + Len(action_state[s].exiting) + Len(action_state[s].transitions)
    IN  Sizes("P") + Sizes("Q")
        + Len(action_transition["T1"].transiting) + Len(action_transition["T2"].transiting)

ActBefore(op, target, arg) ==
    [NoActOp EXCEPT !.op = op, !.target = target, !.arg = arg, !.pre_state = act_state,
                    !.pre = action_state, !.pre_tr = action_transition]

\* s.add_entering_action(action), s.add_in_state_action(action),
\* s.add_exiting_action(action): h names the list
ActAddStateAction(s, h, action) ==
    LET r == AddAction(action_state[s][h], action) IN
    /\ Registered < MaxActions
    /\ action_state' = [action_state EXCEPT ![s][h] = r.list]
    /\ act_last' = [ActBefore("add_" \o h \o "_action", s, action) EXCEPT !.err = r.err]
    /\ act_log' = <<>>
    /\ UNCHANGED <<act_state, action_transition>>
    /\ ActFrame

\* t.add_transiting_action(action)
ActAddTransitingAction(t, action) ==
    LET r == AddAction(action_transition[t].transiting, action) IN
    /\ Registered < MaxActions
    /\ action_transition' = [action_transition EXCEPT ![t].transiting = r.list]
    /\ act_last' = [ActBefore("add_transiting_action", t, action) EXCEPT !.err = r.err]
    /\ act_log' = <<>>
    /\ UNCHANGED <<act_state, action_state>>
    /\ ActFrame

\* s.add_transition(transition)
ActAddTransition(s, transition) ==
    LET r == State_add_transition(action_state[s].transitions, transition) IN
    /\ Registered < MaxActions
    /\ action_state' = [action_state EXCEPT ![s].transitions = r.list]
    /\ act_last' = [ActBefore("add_transition", s, transition) EXCEPT !.err = r.err]
    /\ act_log' = <<>>
    /\ UNCHANGED <<act_state, action_transition>>
    /\ ActFrame

\* track() on the machine: c gives the value of each transition's condition
ActTrack(c) ==
    LET transitions == action_state[act_state].transitions
        i == State_transiting(transitions, [k \in 1..Len(transitions) |-> c[transitions[k]]])
    IN  /\ IF i = 0
           THEN /\ act_log' = ActionState_do_action("in_state", act_state, action_state[act_state])
                /\ act_last' = ActBefore("track", act_state, "")
                /\ UNCHANGED act_state
           ELSE LET t == transitions[i] IN
                /\ act_log' = ActionState_do_action("exiting", act_state, action_state[act_state])
                              \o ActionTransition_do_transiting_action(t, action_transition[t])
                              \o ActionState_do_action("entering", ActTarget(t),
                                                       action_state[ActTarget(t)])
                /\ act_last' = [ActBefore("track", act_state, "") EXCEPT !.taken = t]
                /\ act_state' = ActTarget(t)
        /\ UNCHANGED <<action_state, action_transition>>
        /\ ActFrame

NextAct ==
    \/ \E s \in ActStates, h \in {"entering", "in_state", "exiting"}, action \in ActionArgs :
          ActAddStateAction(s, h, action)
    \/ \E t \in ActTransitions, action \in ActionArgs : ActAddTransitingAction(t, action)
    \/ \E s \in ActStates, transition \in TransitionArgs : ActAddTransition(s, transition)
    \/ \E c \in [ActTransitions -> BOOLEAN] : ActTrack(c)

SpecAct == Init /\ [][NextAct]_vars


----------------------------------------------------------------------------
(* Operations on the entry count condition *)

\* StateEntryCountCondition(state, expected_count, auto_reset, inverse)
CountBuild(expected_count, auto_reset, inverse) ==
    /\ ~count_condition.built
    /\ count_condition' = NewStateEntryCountCondition(count_state.entry_count, expected_count,
                                                      auto_reset, inverse)
    /\ count_last' = [NoCountOp EXCEPT !.op = "build"]
    /\ count_hist' = [entries |-> 0, awaiting |-> FALSE, regular |-> TRUE, reset |-> FALSE]
    /\ UNCHANGED count_state
    /\ CountFrame

\* state._exec_entering_action()
CountEnter ==
    /\ count_state.entry_count < MaxEntries
    /\ count_state' = MonitoredState_exec_entering_action("S", count_state, now).st
    /\ count_last' = [NoCountOp EXCEPT !.op = "enter"]
    /\ count_hist' = [count_hist EXCEPT !.entries = @ + 1, !.awaiting = TRUE,
                                        !.regular = @ /\ ~count_hist.awaiting]
    /\ UNCHANGED count_condition
    /\ CountFrame

\* bool(condition)
CountEvaluate ==
    LET r == StateEntryCountCondition_compare(count_condition, count_state.entry_count) IN
    /\ count_condition.built
    /\ count_condition' = r.cond
    /\ count_last' = [op |-> "evaluate",
                      result |-> Condition_bool(count_condition.inverse, r.ret),
                      fresh |-> count_hist.awaiting]
    /\ count_hist' = [count_hist EXCEPT !.awaiting = FALSE]
    /\ UNCHANGED count_state
    /\ CountFrame

\* condition.reset_count()
CountResetCount ==
    /\ count_condition.built
    /\ ~count_hist.reset
    /\ count_condition' = StateEntryCountCondition_reset_count(count_condition)
    /\ count_last' = [NoCountOp EXCEPT !.op = "reset_count"]
    /\ count_hist' = [count_hist EXCEPT !.reset = TRUE]
    /\ UNCHANGED count_state
    /\ CountFrame

NextCount ==
    \/ \E expected_count \in 1..MaxExpected, auto_reset \in BOOLEAN, inverse \in BOOLEAN :
          CountBuild(expected_count, auto_reset, inverse)
    \/ CountEnter
    \/ CountEvaluate
    \/ CountResetCount

SpecCount == Init /\ [][NextCount]_vars


----------------------------------------------------------------------------
(* Operations on the timed condition *)

\* TimedCondition(duration, time_reference, inverse)
TimedConstruct(duration, time_reference, inverse) ==
    LET err == TimedCondition_set_duration(duration) IN
    /\ ~timed_condition.built
    /\ timed_last' = [NoTimedOp EXCEPT !.op = "construct", !.err = err]
    /\ IF err # "none"
       THEN UNCHANGED <<timed_condition, timed_hist>>
       ELSE /\ timed_condition' = NewTimedCondition(duration, time_reference, inverse, now)
            /\ timed_hist' = [last_reset |-> IF time_reference = NoTime THEN now ELSE NoTime,
                              true_since |-> FALSE]
    /\ TimedFrame

\* condition.duration = duration
TimedSetDuration(duration) ==
    LET err == TimedCondition_set_duration(duration) IN
    /\ timed_condition.built
    /\ timed_last' = [NoTimedOp EXCEPT !.op = "set_duration", !.err = err]
    /\ IF err # "none"
       THEN UNCHANGED <<timed_condition, timed_hist>>
       ELSE /\ timed_condition' = [timed_condition EXCEPT !.counter_duration = duration.val]
            /\ timed_hist' = [timed_hist EXCEPT !.true_since = FALSE]
    /\ TimedFrame

\* condition.reset()
TimedReset ==
    /\ timed_condition.built
    /\ timed_condition' = TimedCondition_reset(timed_condition, now)
    /\ timed_last' = [NoTimedOp EXCEPT !.op = "reset"]
    /\ timed_hist' = [last_reset |-> now, true_since |-> FALSE]
    /\ TimedFrame

\* bool(condition)
TimedEvaluate ==
    LET raw == TimedCondition_compare(timed_condition, now) IN
    /\ timed_condition.built
    /\ timed_last' = [NoTimedOp EXCEPT !.op = "evaluate", !.at = now, !.raw = raw,
                                       !.result = Condition_bool(timed_condition.inverse, raw),
                                       !.was_true = timed_hist.true_since]
    /\ timed_hist' = [timed_hist EXCEPT !.true_since = @ \/ raw]
    /\ UNCHANGED timed_condition
    /\ TimedFrame

NextTimed ==
    \/ \E duration \in Durations, time_reference \in TimeReferences, inverse \in BOOLEAN :
          TimedConstruct(duration, time_reference, inverse)
    \/ \E duration \in Durations : TimedSetDuration(duration)
    \/ TimedReset
    \/ TimedEvaluate
    \/ Tick

SpecTimed == Init /\ [][NextTimed]_vars


----------------------------------------------------------------------------
(* Operations on the composite condition *)

\* AllConditions(inverse), AnyConditions(inverse), NoneConditions(inverse)
CondBuild(type, inverse) ==
    /\ many_conditions.type = "unbuilt"
    /\ many_conditions' = ManyConditions(type, inverse)
    /\ cond_last' = [NoCondOp EXCEPT !.op = "build"]
    /\ CondFrame

\* composite.add_condition(condition)
CondAddCondition(condition) ==
    LET r == ManyConditions_add_condition(many_conditions, condition) IN
    /\ many_conditions.type \in ManyTypes
    /\ Len(many_conditions.conditions) < MaxChildren
    /\ many_conditions' = r.cond
    /\ cond_last' = [NoCondOp EXCEPT !.op = "add_condition", !.err = r.err]
    /\ CondFrame

\* bool(composite)
CondEvaluate ==
    /\ many_conditions.type \in ManyTypes
    /\ cond_last' = [NoCondOp EXCEPT !.op = "evaluate",
                                      !.raw = ManyConditions_compare(many_conditions),
                                      !.result = ManyConditions_bool(many_conditions)]
    /\ UNCHANGED many_conditions
    /\ CondFrame

NextCond ==
    \/ \E type \in ManyTypes, inverse \in BOOLEAN : CondBuild(type, inverse)
    \/ \E condition \in LeafConditions \cup {ManyConditions("NotACondition", FALSE)} :
          CondAddCondition(condition)
    \/ CondEvaluate

SpecCond == Init /\ [][NextCond]_vars


----------------------------------------------------------------------------
(* Operations on the layout under construction *)

\* layout.add_state(state)
LayAddState(state) ==
    /\ state \notin lay_layout.states
    /\ lay_layout' = [lay_layout EXCEPT !.states = @ \cup {state}]
    /\ lay_last' = [NoLayOp EXCEPT !.op = "add_state"]
    /\ UNCHANGED lay_transition
    /\ LayFrame

\* layout.initial_state = state
LaySetInitialState(state) ==
    /\ lay_layout.initial_state # state
    /\ IF state \notin lay_layout.states
       THEN /\ lay_last' = [NoLayOp EXCEPT !.op = "initial_state", !.err = "ValueError"]
            /\ UNCHANGED lay_layout
       ELSE /\ lay_last' = [NoLayOp EXCEPT !.op = "initial_state"]
            /\ lay_layout' = [lay_layout EXCEPT !.initial_state = state]
    /\ UNCHANGED lay_transition
    /\ LayFrame

\* state.add_transition(transition)
LayAddTransition(state, transition) ==
    /\ Len(lay_transition["A"]) + Len(lay_transition["B"]) < MaxTransitions
    /\ lay_transition' = [lay_transition EXCEPT ![state] = Append(@, transition)]
    /\ lay_last' = [NoLayOp EXCEPT !.op = "add_transition"]
    /\ UNCHANGED lay_layout
    /\ LayFrame

\* layout.valid
LayValid(order) ==
    /\ lay_last' = [NoLayOp EXCEPT !.op = "valid",
                                     !.result = LayoutObject_valid(lay_layout, lay_transition, order)]
    /\ UNCHANGED <<lay_layout, lay_transition>>
    /\ LayFrame

NextLayout ==
    \/ \E state \in LayStates : LayAddState(state)
    \/ \E state \in LayStates : LaySetInitialState(state)
    \/ \E state \in LayStates, transition \in TransitionObjects : LayAddTransition(state, transition)
    \/ \E order \in Orders(lay_layout.states) : LayValid(order)

SpecLayout == Init /\ [][NextLayout]_vars


----------------------------------------------------------------------------
(* Operations on a Blinkers *)

\* the call made now, with what it answers
BlkApply(call) ==
    \E r \in {Blinkers_call(blinker, call, now)} :
        /\ blinker' = r.b
        /\ blk_last' = [call |-> call, err |-> r.err, log |-> r.log, at |-> now, pre |-> blinker]

\* blinker.turn_on(**kw), blinker.turn_off(**kw)
BlkTurn(call) ==
    /\ blk_hist.commands < MaxCommands
    /\ BlkApply(call)
    /\ blk_hist' = [blk_hist EXCEPT !.commands = @ + 1]
    /\ BlkFrame

\* blinker.blink(percent_on, begin_on, **kw)
BlkBlink(call) ==
    /\ blk_hist.commands < MaxCommands
    /\ BlkApply(call)
    /\ blk_hist' = [blk_hist EXCEPT !.commands = @ + 1]
    /\ BlkFrame

\* blinker.reset()
BlkReset ==
    /\ blk_hist.commands < MaxCommands
    /\ BlkApply(ResetCall)
    /\ blk_hist' = [blk_hist EXCEPT !.commands = @ + 1]
    /\ BlkFrame

\* blinker.track(); the states reached by the track() calls that follow the
\* observed command are kept with their times
BlkTrack ==
    /\ blk_hist.phase = "run" => Len(blk_hist.trace) < MaxTracks
    /\ BlkApply(TrackCall)
    /\ blk_hist' = IF blk_hist.phase = "run"
                   THEN [blk_hist EXCEPT !.trace = Append(@, [at |-> now, state |-> blinker'.state])]
                   ELSE blk_hist
    /\ BlkFrame

NextBlinkers ==
    \/ \E call \in TurnCalls : BlkTurn(call)
    \/ \E call \in BlinkCalls : BlkBlink(call)
    \/ BlkReset
    \/ BlkTrack
    \/ Tick

SpecBlinkers == Init /\ [][NextBlinkers]_vars


----------------------------------------------------------------------------
(* One command of a Blinkers followed by track() calls *)

\* a command made before the observed one
RunSetup(call) ==
    /\ blk_hist.phase = "setup"
    /\ blk_hist.commands = 0
    /\ BlkApply(call)
    /\ blk_hist' = [blk_hist EXCEPT !.commands = 1]
    /\ BlkFrame

\* the observed command: only track() calls follow it
RunCommand(call) ==
    /\ blk_hist.phase = "setup"
    /\ BlkApply(call)
    /\ blk_hist' = [commands |-> blk_hist.commands + 1, phase |-> "run", command |-> call,
                    at |-> now, trace |-> <<>>]
    /\ BlkFrame

NextBlinkRun ==
    \/ \E call \in SetupCalls : RunSetup(call)
    \/ \E call \in RunCalls : RunCommand(call)
    \/ BlkTrack
    \/ Tick

SpecBlinkRun == Init /\ [][NextBlinkRun]_vars


----------------------------------------------------------------------------
(* Operations on a SideBlinkers *)

\* the call c, the clock advancing by lag between the two channels
SideApply(c, lag) ==
    /\ now + lag <= MaxClock
    /\ now' = now + lag
    /\ \E r \in {SideBlinkers_call(sides, c, now, now + lag)} :
          /\ sides' = [left |-> r.left.b, right |-> r.right.b]
          /\ side_last' = [call |-> c, err |-> SideBlinkers_raised(r), ret |-> "None",
                           left_at |-> now, right_at |-> now + lag]
          /\ side_hist' = [side_hist EXCEPT !.commands = 1]

\* a command made before the observed one
SideSetup(c, lag) ==
    /\ side_hist.phase = "setup"
    /\ side_hist.commands = 0
    /\ SideApply(c, lag)
    /\ SideFrame

\* the observed command: only track() calls follow it
SideCommand(c, lag) ==
    /\ side_hist.phase = "setup"
    /\ now + lag <= MaxClock
    /\ now' = now + lag
    /\ \E r \in {SideBlinkers_call(sides, c, now, now + lag)} :
          /\ sides' = [left |-> r.left.b, right |-> r.right.b]
          /\ side_last' = [call |-> c, err |-> SideBlinkers_raised(r), ret |-> "None",
                           left_at |-> now, right_at |-> now + lag]
          /\ side_hist' = [phase |-> "run", commands |-> side_hist.commands + 1, command |-> c,
                           err |-> SideBlinkers_raised(r), left_at |-> now,
                           right_at |-> now + lag, trace |-> <<>>, pre |-> sides,
                           left_log |-> r.left.log, right_log |-> r.right.log]
    /\ SideFrame

\* sideblinkers.track(); the states reached after the observed command are
\* kept with the time of each channel's track()
SideTrack(lag) ==
    /\ side_hist.phase = "run" => Len(side_hist.trace) < MaxSideTracks
    /\ now + lag <= MaxClock
    /\ now' = now + lag
    /\ \E r \in {SideBlinkers_track(sides, now, now + lag)} :
          /\ sides' = [left |-> r.left.b, right |-> r.right.b]
          /\ side_last' = [call |-> SideCall("track", TrackCall), err |-> SideBlinkers_raised(r),
                           ret |-> "None", left_at |-> now, right_at |-> now + lag]
          /\ side_hist' = IF side_hist.phase = "run"
                          THEN [side_hist EXCEPT !.trace =
                                  Append(@, [left_at |-> now, right_at |-> now + lag,
                                             left |-> r.left.b.state, right |-> r.right.b.state])]
                          ELSE side_hist
    /\ SideFrame

\* sideblinkers.on(side) or sideblinkers.off(side), asked before the first
\* track() that follows the observed command
SideQuery(op, side) ==
    /\ side_hist.trace = <<>>
    /\ \E r \in {SideBlinkers_query(sides, op, side)} :
          side_last' = [call |-> SideCall(side, TurnCall(op, NoTurnKwargs)), err |-> r.err,
                        ret |-> r.ret, left_at |-> now, right_at |-> now]
    /\ UNCHANGED <<sides, side_hist, now>>
    /\ SideFrame

NextSide ==
    \/ \E c \in SideSetupCalls, lag \in Lags : SideSetup(c, lag)
    \/ \E c \in SideCalls, lag \in Lags : SideCommand(c, lag)
    \/ \E lag \in Lags : SideTrack(lag)
    \/ \E op \in {"on", "off"}, side \in Sides : SideQuery(op, side)
    \/ Tick

SpecSide == Init /\ [][NextSide]_vars

----------------------------------------------------------------------------
(* Operations on the machine of States with Parameters *)

\* the two States are built with their Parameters and the machine with them
ParConstruct(pa, pb) ==
    /\ par_state = None
    /\ par_parameters' = [s \in ParStates |-> IF s = "A" THEN pa ELSE pb]
    /\ par_state' = ResetResult(ParLayout(par_parameters'), None, UNITIALIZED).cas
    /\ par_last' = [NoParOp EXCEPT !.op = "construct"]
    /\ ParFrame

\* track(): g is the value of the current state's transition
ParTrack(g) ==
    /\ par_state # None
    /\ \E r \in {TrackResult(ParLayout(par_parameters), par_state, IDLE, <<g, FALSE>>, FALSE)} :
          /\ par_state' = r.cas
          /\ par_last' = [op |-> "track", pre |-> par_state, moved |-> g,
                          log |-> StateHooks(r.log, par_parameters)]
    /\ UNCHANGED par_parameters
    /\ ParFrame

\* transit_to(state)
ParTransitTo(state) ==
    /\ par_state # None
    /\ \E r \in {TransitToResult(par_state, state)} :
          /\ par_state' = r.cas
          /\ par_last' = [op |-> "transit_to", pre |-> par_state, moved |-> TRUE,
                          log |-> StateHooks(r.log, par_parameters)]
    /\ UNCHANGED par_parameters
    /\ ParFrame

NextParameters ==
    \/ \E pa \in AllParameters, pb \in AllParameters : ParConstruct(pa, pb)
    \/ \E g \in BOOLEAN : ParTrack(g)
    \/ \E state \in ParStates : ParTransitTo(state)

SpecParameters == Init /\ [][NextParameters]_vars

----------------------------------------------------------------------------
(* Operations on the parent machine and on its nested machine *)

NestBefore(op) ==
    [NoNestOp EXCEPT !.op = op, !.pre_parent = nest_parent, !.pre_child = nest_child]

\* parent.track(): g is the value of the parent's transitions, gc the value
\* of the nested machine's
NestTrack(g, gc) ==
    \E r \in {TrackResult(ParentLayout, nest_parent, IDLE, g, FALSE)} :
    \E h \in {TaskHooks(r.log, nest_child, gc)} :
        /\ nest_parent' = r.cas
        /\ nest_child' = h.child
        /\ nest_last' = [NestBefore("track") EXCEPT !.guards = g, !.child_guards = gc,
                                                    !.tracks = h.tracks, !.log = h.log]
        /\ NestFrame

\* nested.transit_to(state), a command made to the nested machine
NestChildTransitTo(state) ==
    \E r \in {TransitToResult(nest_child, state)} :
        /\ nest_child' = r.cas
        /\ nest_last' = [NestBefore("child.transit_to") EXCEPT !.log = r.log]
        /\ UNCHANGED nest_parent
        /\ NestFrame

\* nested.reset(), a command made to the nested machine
NestChildReset ==
    \E r \in {ResetResult(ChildLayout, nest_child, IDLE)} :
        /\ nest_child' = r.cas
        /\ nest_last' = [NestBefore("child.reset") EXCEPT !.log = r.log]
        /\ UNCHANGED nest_parent
        /\ NestFrame

NextNested ==
    \/ \E g \in Guards, gc \in Guards : NestTrack(g, gc)
    \/ \E state \in ChildLayout.states : NestChildTransitTo(state)
    \/ NestChildReset

SpecNested == Init /\ [][NextNested]_vars

TypeOK ==
    /\ current_applicative_state \in States \cup {None}
    /\ current_operational_state \in OperationalState
    /\ pc \in {"new", "idle", "loop"}
    /\ now \in 0..MaxClock

----------------------------------------------------------------------------
(* Reading the record of the last operation *)

HookAt(h) == { k \in 1..Len(log) : log[k].hook = h }
HookOf(h, s) == { k \in 1..Len(log) : log[k].hook = h /\ log[k].state = s }
IsTrack == last.op = "track"
\* the transitions registered on the state the last operation started from
PreTransitions == layout.transition[last.pre_state]
\* indices of those whose condition was true at call time
TrueAtCall == { i \in 1..Len(PreTransitions) : last.guards[i] }

----------------------------------------------------------------------------
(* C1 *)

\* C1: a track() call takes at most one transition, and when some transitions
\* of the current state have a true condition at call time, the one taken is
\* the one with the lowest registration index among them: the index taken is
\* a function of the transition list and the guard values alone.
C1_FirstTrueTransitionWins ==
    (IsTrack /\ last.pre_state # None) =>
        /\ Cardinality(HookAt("transiting")) <= 1
        /\ TrueAtCall # {} =>
              /\ Cardinality(HookAt("transiting")) = 1
              /\ \A k \in HookAt("transiting") :
                    /\ log[k].state = last.pre_state
                    /\ log[k].idx \in TrueAtCall
                    /\ \A j \in TrueAtCall : log[k].idx <= j

\* a track() call on a state with two transitions whose conditions are both true
C1_Witness ==
    /\ IsTrack /\ last.pre_state # None
    /\ Len(PreTransitions) = 2
    /\ last.guards = <<TRUE, TRUE>>
    /\ \E k \in HookAt("transiting") : log[k].idx = 1

----------------------------------------------------------------------------
(* C2 *)

\* C2: a track() call that returns does exactly one of two things.  If a
\* transition of the current state fires it runs the current state's exit
\* hook, the transition's transiting hook, the assignment of next_state and
\* the new state's entry hook, in this order, and no in-state hook; otherwise
\* it runs only the current state's in-state hook and the current state is
\* unchanged.  A terminal current state is no exception.
C2_TrackStep ==
    (IsTrack /\ last.err = "none") =>
        LET pre == last.pre_state IN
        IF TrueAtCall # {}
        THEN \E i \in TrueAtCall :
                LET nx == PreTransitions[i] IN
                /\ log = <<Ev("exit", pre, 0), Ev("transiting", pre, i),
                           Ev("set", nx, 0), Ev("entry", nx, 0)>>
                /\ current_applicative_state = nx
        ELSE /\ log = <<Ev("in_state", pre, 0)>>
             /\ current_applicative_state = pre

\* a track() call that left a terminal state through a firing transition
C2_Witness ==
    /\ IsTrack /\ last.err = "none"
    /\ last.pre_state # None
    /\ layout.terminal[last.pre_state]
    /\ TrueAtCall # {}
    /\ current_applicative_state # last.pre_state

----------------------------------------------------------------------------
(* C3 *)

\* C3: when a track() call, made directly or by start(), ends with a terminal
\* current state, the operational state is TERMINAL_REACHED afterwards.
C3_TerminalReached ==
    (IsTrack /\ last.err = "none" /\ layout.terminal[current_applicative_state]) => current_operational_state = TERMINAL_REACHED

----------------------------------------------------------------------------
(* C4 *)

\* C4: track() returns false if and only if the current state after the step
\* is terminal, and true in every other case.
C4_TrackReturnsNotTerminal ==
    (IsTrack /\ last.err = "none") =>
        /\ last.ret \in {"True", "False"}
        /\ (last.ret = "False") <=> layout.terminal[current_applicative_state]

\* a track() call that took a transition from a non-terminal state into a
\* terminal one and returned false
C4_Witness ==
    /\ IsTrack /\ last.err = "none"
    /\ last.pre_state # current_applicative_state
    /\ ~layout.terminal[last.pre_state]
    /\ layout.terminal[current_applicative_state]
    /\ last.ret = "False"

----------------------------------------------------------------------------
(* C5 *)

C5_AtInitialIdle == current_applicative_state = layout.initial_state /\ current_operational_state = IDLE

C5_State ==
    /\ (last.op = "construct" /\ last.err = "none" /\ last.arg2 = "True") => C5_AtInitialIdle
    /\ last.op = "reset" => C5_AtInitialIdle

C5_SecondReset ==
    (last.op = "reset" /\ last'.op = "reset") => (current_applicative_state' = current_applicative_state /\ current_operational_state' = current_operational_state)

\* C5: a machine constructed with the default arguments is in the layout's
\* initial state with operational state IDLE; so is the machine after every
\* reset(), whatever the operations before it; and a reset() that follows a
\* reset() changes neither.
C5_ResetToInitialIdle == []C5_State /\ [][C5_SecondReset]_vars

\* a reset() made while RUNNING, away from the initial state
C5_Witness ==
    /\ last.op = "reset"
    /\ last.pre_op = RUNNING
    /\ last.pre_state # None
    /\ last.pre_state # layout.initial_state
    /\ C5_AtInitialIdle

----------------------------------------------------------------------------
(* C6 *)

\* C6: reset() called while RUNNING with current state A runs the exit hook
\* of A, exactly once, and no other exit hook; called while not RUNNING it
\* runs no exit hook; it never runs an entry hook.
C6_ResetExitsAbandonedState ==
    (last.op = "reset" /\ last.pre_state # None) =>
        /\ HookAt("entry") = {}
        /\ last.pre_op = RUNNING =>
              /\ Cardinality(HookAt("exit")) = 1
              /\ HookOf("exit", last.pre_state) = HookAt("exit")
        /\ last.pre_op # RUNNING => HookAt("exit") = {}

----------------------------------------------------------------------------
(* C7 *)

\* exactly one exit hook of a, then exactly one entry hook of b
LeftThenEntered(a, b) ==
    /\ Cardinality(HookOf("exit", a)) = 1
    /\ Cardinality(HookOf("entry", b)) = 1
    /\ \A i \in HookOf("exit", a), j \in HookOf("entry", b) : i < j

HooksPerStateChange ==
    /\ (current_applicative_state # last.pre_state /\ current_applicative_state # None /\ last.pre_state # None) =>
          LeftThenEntered(last.pre_state, current_applicative_state)
    /\ (current_applicative_state = last.pre_state /\ current_applicative_state # None) =>
          \/ HookAt("exit") \cup HookAt("entry") = {}
          \/ LeftThenEntered(current_applicative_state, current_applicative_state)

\* C7 as stated: across track, transit_to, reset and start, every change of
\* the current state from A to a different state B comes with exactly one
\* exit hook of A followed by exactly one entry hook of B, and an operation
\* that stays in its state without leaving it runs no exit or entry hook.
C7_Original ==
    last.op \in {"track", "transit_to", "reset", "start"} => HooksPerStateChange

\* C7 amended: the same, for track() (called directly or by start()) and
\* transit_to() only.
C7_HooksPerStateChange ==
    last.op \in {"track", "transit_to"} => HooksPerStateChange

\* a track() call made by start() that changed the current state
C7_Witness ==
    /\ IsTrack /\ last.in_start
    /\ current_applicative_state # last.pre_state /\ current_applicative_state # None
    /\ LeftThenEntered(last.pre_state, current_applicative_state)

----------------------------------------------------------------------------
(* C8 *)

\* no initial state, or a member state with a transition without next_state
C8_InvalidLayout(L) ==
    \/ L.initial_state = None
    \/ \E s \in L.states : \E i \in 1..Len(L.transition[s]) : L.transition[s][i] = None

C8_NoMachine == pc = "new" /\ layout = NoLayout /\ current_applicative_state = None

----------------------------------------------------------------------------
(* C9 *)

\* C9: no machine exists whose layout has a declared state with a transition
\* to a state that is not declared, and so track() never leaves the layout's
\* state set.
C9_TargetsAreDeclared ==
    pc # "new" =>
        /\ \A s \in layout.states : \A i \in 1..Len(layout.transition[s]) :
              layout.transition[s][i] \in layout.states
        /\ (IsTrack /\ last.pre_state \in layout.states /\ last.err = "none") =>
              current_applicative_state \in layout.states

----------------------------------------------------------------------------
(* C10 *)

\* C10 as stated: on a machine that has a current state, transit_to(x) raises
\* TypeError, runs no hook and leaves the current state unchanged whenever x
\* is not a State or is a State that the layout does not declare.
C10_Original ==
    (last.op = "transit_to" /\ last.pre_state # None /\ last.arg \notin layout.states) =>
        /\ last.err = "TypeError"
        /\ log = <<>>
        /\ current_applicative_state = last.pre_state

\* C10 amended: transit_to(x) raises TypeError, runs no hook and leaves the
\* current state unchanged whenever x is not a State; for every State x,
\* declared by the layout or not, on a machine that has a current state, it
\* runs the current state's exit hook, then sets the current state to x, then
\* runs x's entry hook.
C10_TransitTo ==
    last.op = "transit_to" =>
        /\ last.arg \notin States =>
              (last.err = "TypeError" /\ log = <<>> /\ current_applicative_state = last.pre_state)
        /\ (last.arg \in States /\ last.pre_state # None) =>
              /\ last.err = "none"
              /\ log = <<Ev("exit", last.pre_state, 0), Ev("set", last.arg, 0),
                         Ev("entry", last.arg, 0)>>
              /\ current_applicative_state = last.arg

\* a transit_to() to a State that the layout does not declare
C10_Witness ==
    /\ last.op = "transit_to"
    /\ last.arg \in States \ layout.states
    /\ last.err = "none"
    /\ current_applicative_state = last.arg

----------------------------------------------------------------------------
(* C11 *)

C11_State ==
    /\ (last.op = "start" /\ last.err = "none") =>
          /\ current_operational_state = RUNNING
          /\ pc = "loop"
          /\ last.arg = "True" => current_applicative_state = layout.initial_state
    /\ (IsTrack /\ last.in_start /\
            (last.ret # "True" \/ current_operational_state # RUNNING)) => pc = "idle"
    /\ (IsTrack /\ last.in_start /\ last.stop /\ last.err = "none") =>
          /\ current_operational_state = IDLE
          /\ Len(log) = IF TrueAtCall # {} THEN 4 ELSE 1

C11_Step ==
    (last'.op = "track" /\ last'.in_start) =>
        /\ pc = "loop"
        /\ current_operational_state = RUNNING
        /\ time_budget.kind = "None" \/ now - current_time < time_budget.val
        /\ \/ last.op = "start" /\ last.err = "none"
           \/ IsTrack /\ last.in_start /\ last.ret = "True" /\ last.err = "none"

\* C11: start() sets the operational state to RUNNING, after resetting when
\* reset is true, and only then calls track().  Each of its track() calls is
\* made while RUNNING, with the elapsed time below the budget, and right after
\* the start or after one of its track() calls that returned true; a step that
\* returned false or in which a hook called stop() (the step runs all its
\* hooks) is the last one.
C11_StartLoop == []C11_State /\ [][C11_Step]_vars

\* a step of start() in which a hook called stop(): the transition was taken
\* with all its hooks and the loop has ended
C11_Witness ==
    /\ IsTrack /\ last.in_start /\ last.stop
    /\ last.ret = "True"
    /\ Len(log) = 4
    /\ pc = "idle"

----------------------------------------------------------------------------
(* C12 *)

C12_Untouched ==
    /\ current_applicative_state = last.pre_state
    /\ current_operational_state = last.pre_op
    /\ pc = "idle"
    /\ log = <<>>

\* C12 as stated: start(time_budget=b) is rejected, with the machine
\* untouched, unless b is None or a positive number, and accepted for None
\* and every positive number.
C12_Original ==
    (last.op = "start" /\ last.arg # "NotABool") =>
        IF last.arg2 = "None" \/ (last.arg2 \in {"float", "int"} /\ last.val > 0)
        THEN last.err = "none"
        ELSE last.err # "none" /\ C12_Untouched

\* C12 amended: start(time_budget=b) is rejected with TypeError, with the
\* machine untouched, for every b that is neither None nor a float, a
\* positive int included; None and every float, zero and negative floats
\* included, are accepted, and the machine is then RUNNING.
C12_StartBudgetType ==
    (last.op = "start" /\ last.arg # "NotABool") =>
        IF last.arg2 \in {"None", "float"}
        THEN last.err = "none" /\ current_operational_state = RUNNING /\ pc = "loop"
        ELSE last.err = "TypeError" /\ C12_Untouched

\* start(reset=True, time_budget=1), an int, rejected away from the initial
\* state
C12_Witness ==
    /\ last.op = "start" /\ last.arg = "True"
    /\ last.arg2 = "int" /\ last.val > 0
    /\ last.err = "TypeError"
    /\ last.pre_state # layout.initial_state
    /\ last.pre_state # None
    /\ C12_Untouched

----------------------------------------------------------------------------
(* C13 *)

C13_State ==
    /\ \A s \in MonStates \ mon_hist.count_reset :
          monitored_state[s].entry_count = mon_hist.entries[s]
    /\ \A k \in 1..Len(mon_log) :
          LET e == mon_log[k] IN
          /\ e.hook = "entering" =>
                /\ e.entry_count = mon_last.pre[e.state].entry_count + 1
                /\ e.last_entry_time = e.at
                /\ monitored_state[e.state].last_entry_time = e.at
          /\ e.hook = "exiting" =>
                /\ e.last_exit_time = mon_last.pre[e.state].last_exit_time
                /\ monitored_state[e.state].last_exit_time >= e.at

C13_Step ==
    \A s \in MonStates :
        mon_last'.op \in {"track", "transit_to"} =>
            /\ monitored_state'[s].entry_count >= monitored_state[s].entry_count
            /\ monitored_state'[s].entry_count =
                  monitored_state[s].entry_count + (mon_hist'.entries[s] - mon_hist.entries[s])

\* C13: without reset_entry_count, the entry_count of a MonitoredState is
\* the number of times it was entered, and track and transit_to never lower
\* it and add one per entry; an entering callback sees the incremented count
\* and the new last_entry_time; an exiting callback still sees the previous
\* last_exit_time, which is written after it ran.
C13_EntryBookkeeping == []C13_State /\ [][C13_Step]_vars

\* a state left at a later time than its previous exit and entered for the
\* second time
C13_Witness ==
    /\ \E k \in 1..Len(mon_log) :
          /\ mon_log[k].hook = "exiting"
          /\ monitored_state[mon_log[k].state].last_exit_time > mon_log[k].last_exit_time
    /\ \E k \in 1..Len(mon_log) :
          /\ mon_log[k].hook = "entering"
          /\ mon_log[k].entry_count = 2
          /\ mon_log[k].state \notin mon_hist.count_reset

----------------------------------------------------------------------------
(* C14 *)

\* C14: each time a MonitoredTransition is taken by track(), its
\* transit_count grows by one and last_transit_time is the time of the
\* transit; without reset_transit_count, transit_count is the number of times
\* it was taken.
C14_TransitBookkeeping ==
    /\ \A t \in MonTransitions \ mon_hist.transit_reset :
          monitored_transition[t].transit_count = mon_hist.transits[t]
    /\ (mon_last.op = "track" /\ mon_last.fired) =>
          \E t \in MonTransitions :
              /\ mon_hist.transits[t] > 0
              /\ monitored_transition[t].last_transit_time = now


----------------------------------------------------------------------------
(* C15 *)

\* C15: each time a hook executes, every callback registered on it runs in
\* registration order: track() without a firing transition runs the state's
\* in-state callbacks; track() taking a transition runs the old state's
\* exiting callbacks, then the transition's transiting callbacks, then the
\* new state's entering callbacks.
C15_CallbacksRunInOrder ==
    act_last.op = "track" =>
        IF act_last.taken = None
        THEN act_log = RunActions("in_state", act_last.pre_state,
                                  action_state[act_last.pre_state].in_state)
        ELSE act_log = RunActions("exiting", act_last.pre_state,
                                  action_state[act_last.pre_state].exiting)
                       \o RunActions("transiting", act_last.taken,
                                     action_transition[act_last.taken].transiting)
                       \o RunActions("entering", act_state, action_state[act_state].entering)

----------------------------------------------------------------------------
(* C16 *)

C16_IsAdd == act_last.op \notin {"none", "track"}

\* the list the last add_* operation was aimed at, before and after it
C16_Before ==
    CASE act_last.op = "add_transiting_action" -> act_last.pre_tr[act_last.target].transiting
      [] act_last.op = "add_transition" -> act_last.pre[act_last.target].transitions
      [] act_last.op = "add_entering_action" -> act_last.pre[act_last.target].entering
      [] act_last.op = "add_in_state_action" -> act_last.pre[act_last.target].in_state
      [] OTHER -> act_last.pre[act_last.target].exiting
C16_After ==
    CASE act_last.op = "add_transiting_action" -> action_transition[act_last.target].transiting
      [] act_last.op = "add_transition" -> action_state[act_last.target].transitions
      [] act_last.op = "add_entering_action" -> action_state[act_last.target].entering
      [] act_last.op = "add_in_state_action" -> action_state[act_last.target].in_state
      [] OTHER -> action_state[act_last.target].exiting
C16_ArgIsValid ==
    IF act_last.op = "add_transition" THEN act_last.arg \in ActTransitions
    ELSE act_last.arg \in Callbacks

\* C16: an add_* operation given an input of the wrong kind raises TypeError
\* and leaves every list as it was; given a valid input it raises nothing and
\* the aimed list is the old list with the input appended at its end.
C16_Registration ==
    C16_IsAdd =>
        IF C16_ArgIsValid
        THEN /\ act_last.err = "none"
             /\ C16_After = Append(C16_Before, act_last.arg)
        ELSE /\ act_last.err = "TypeError"
             /\ action_state = act_last.pre
             /\ action_transition = act_last.pre_tr

\* a non-callable refused on a list that already holds a callback
C16_Witness ==
    /\ C16_IsAdd
    /\ ~C16_ArgIsValid
    /\ act_last.err = "TypeError"
    /\ Len(C16_Before) > 0


----------------------------------------------------------------------------
(* C17 *)

\* the condition has auto_reset, was never reset by hand, and was evaluated
\* after each entry made since its construction
C17_Case ==
    /\ count_last.op = "evaluate"
    /\ count_condition.auto_reset
    /\ ~count_hist.reset
    /\ count_hist.regular

\* C17: a StateEntryCountCondition with expected_count k and auto_reset,
\* evaluated after every entry of its state, is true (before inversion) on
\* the evaluation that follows the k-th, 2k-th, ... entry since its
\* construction and false on every other evaluation, a repeated evaluation
\* without a new entry included.
C17_OneTruePerWindow ==
    C17_Case =>
        count_last.result =
            Condition_bool(count_condition.inverse,
                           /\ count_last.fresh
                           /\ count_hist.entries % count_condition.expected_count = 0)

\* the second window of a condition with k > 1 closes
C17_Witness ==
    /\ C17_Case
    /\ count_last.fresh
    /\ ~count_condition.inverse
    /\ count_condition.expected_count > 1
    /\ count_hist.entries = 2 * count_condition.expected_count
    /\ count_last.result


----------------------------------------------------------------------------
(* C18 *)

\* C18: a TimedCondition of duration d, before inversion, evaluates to false
\* at the time of its construction without a time reference or of its
\* last reset(), to true whenever at least d has passed since the last
\* reset(), and to true again once it was true, as long as neither reset()
\* nor a change of d came in between.
C18_TimedCondition ==
    timed_last.op = "evaluate" =>
        /\ timed_last.result = Condition_bool(timed_condition.inverse, timed_last.raw)
        /\ timed_hist.last_reset = timed_last.at => ~timed_last.raw
        /\ (/\ timed_hist.last_reset # NoTime
            /\ timed_last.at - timed_hist.last_reset >= timed_condition.counter_duration)
              => timed_last.raw
        /\ timed_last.was_true => timed_last.raw

\* true again, later than d after a reset() that followed the construction
C18_Witness ==
    /\ timed_last.op = "evaluate"
    /\ timed_last.raw
    /\ timed_hist.last_reset > 0
    /\ timed_last.at - timed_hist.last_reset > timed_condition.counter_duration
    /\ timed_last.was_true


----------------------------------------------------------------------------
(* C19 *)

\* the value of child k: its own inverse flag applied to its comparison
C19_Child(k) ==
    LET c == many_conditions.conditions[k]
        raw == IF c.type = "AlwaysTrueCondition" THEN TRUE ELSE c.value = c.expected_value
    IN  (c.inverse /\ ~raw) \/ (~c.inverse /\ raw)
C19_Children == 1..Len(many_conditions.conditions)

\* C19: a composite evaluates to inverse XOR its raw comparison, where the
\* raw comparison of AllConditions is the conjunction of its children's
\* values, that of AnyConditions their disjunction and that of NoneConditions
\* true iff no child is true; and over any list of children NoneConditions
\* evaluates like AnyConditions built with inverse=True.
C19_Evaluation ==
    /\ cond_last.op = "evaluate" =>
          /\ cond_last.result = (   (many_conditions.inverse /\ ~cond_last.raw)
                                 \/ (~many_conditions.inverse /\ cond_last.raw))
          /\ many_conditions.type = "AllConditions" =>
                (cond_last.raw <=> \A k \in C19_Children : C19_Child(k))
          /\ many_conditions.type = "AnyConditions" =>
                (cond_last.raw <=> \E k \in C19_Children : C19_Child(k))
          /\ many_conditions.type = "NoneConditions" =>
                (cond_last.raw <=> ~\E k \in C19_Children : C19_Child(k))
    /\ ManyConditions_bool([many_conditions EXCEPT !.type = "NoneConditions", !.inverse = FALSE])
          = ManyConditions_bool([many_conditions EXCEPT !.type = "AnyConditions", !.inverse = TRUE])

\* an inverted NoneConditions over children of both values, one of them
\* inverted, evaluated
C19_Witness ==
    /\ cond_last.op = "evaluate"
    /\ many_conditions.type = "NoneConditions"
    /\ many_conditions.inverse
    /\ \E j, k \in C19_Children :
          /\ C19_Child(j) /\ ~C19_Child(k)
          /\ many_conditions.conditions[j].inverse
    /\ cond_last.result


----------------------------------------------------------------------------
(* C20 *)

\* a condition that is present and valid, a composite being valid iff it
\* has a child and all its children are valid
C20_ConditionOk(c) ==
    /\ c # NoCondition
    /\ IF c.type \in ManyTypes
       THEN /\ Len(c.conditions) >= 1
            /\ \A k \in 1..Len(c.conditions) : Leaf_valid(c.conditions[k])
       ELSE Leaf_valid(c)

C20_TransitionOk(t) ==
    /\ t.next_state \in LayStates
    /\ t.class = "ConditionalTransition" => C20_ConditionOk(t.condition)

\* C20: Layout.valid returns true if an initial state is set and every
\* transition of every member state has a next_state and, when conditional,
\* a present and valid condition; in every other case it returns false, a
\* conditional transition whose next_state was never assigned included.
C20_LayoutValid ==
    lay_last.op = "valid" =>
        lay_last.result =
            IF /\ lay_layout.initial_state # None
               /\ \A s \in lay_layout.states : \A k \in 1..Len(lay_transition[s]) :
                     C20_TransitionOk(lay_transition[s][k])
            THEN "True" ELSE "False"


----------------------------------------------------------------------------
(* C21 *)

\* C21: a freshly constructed Blinkers is off and not on, and after any
\* sequence of turn_on, turn_off, blink, track and reset calls its current
\* state is one of its eleven states and exactly one of on / off is true.
C21_OnXorOff ==
    /\ Cardinality(BlinkerStates) = 11
    /\ blinker.state \in BlinkerStates
    /\ Blinkers_on(blinker) # Blinkers_off(blinker)
    /\ blk_last.call = NoCall => (Blinkers_off(blinker) /\ ~Blinkers_on(blinker))

\* a bounded blink begun from a timed on state has reached its end state
C21_Witness ==
    /\ blinker.state = "blink_stop_end"
    /\ blinker.monitored["on_duration"].entry_count > 0


----------------------------------------------------------------------------
(* C22 - C25: the states reached by track() after one command *)

\* the observed command and the states the track() calls after it reached
Cmd == blk_hist.command
Trace == blk_hist.trace
Running == blk_hist.phase = "run"
\* time between the command and the k-th track() after it, in quarters
SinceCommand(k) == DurationOf(Trace[k].at - blk_hist.at)
\* the state before the k-th track() after the command, first being the
\* state the command entered
StateBefore(k, first) == IF k = 1 THEN first ELSE Trace[k - 1].state
\* the time that state was entered: the command's time, or the time of the
\* track() that entered it
EnteredAt(k, first) ==
    LET same == { i \in 1..(k - 1) : \A j \in i..(k - 1) : Trace[j].state = Trace[k - 1].state }
        i0 == CHOOSE i \in same : \A j \in same : i <= j
    IN  IF k = 1 \/ (i0 = 1 /\ Trace[1].state = first) THEN blk_hist.at ELSE Trace[i0].at
\* time spent in that state when the k-th track() is made, in quarters
StayedFor(k, first) == DurationOf(Trace[k].at - EnteredAt(k, first))

\* C22: after turn_on() without argument the Blinkers is on, and stays on
\* through every track() call until the next command; after turn_off()
\* without argument it is off and stays off.
C22_HoldStays ==
    (Running /\ Cmd.op \in {"turn_on", "turn_off"} /\ Cmd.turn = NoTurnKwargs) =>
        LET hold == IF Cmd.op = "turn_on" THEN "on" ELSE "off" IN
        /\ blinker.state = hold
        /\ Blinkers_on(blinker) = (Cmd.op = "turn_on")
        /\ Blinkers_off(blinker) = (Cmd.op = "turn_off")
        /\ \A k \in 1..Len(Trace) : Trace[k].state = hold

\* turn_on() made while a blink was running, then tracked over two clock units
C22_Witness ==
    /\ Running /\ Cmd = TurnCall("turn_on", NoTurnKwargs)
    /\ blk_last.pre.monitored["blink_off"].entry_count > 0
    /\ Len(Trace) >= 3
    /\ Trace[Len(Trace)].at >= blk_hist.at + 2
    /\ blinker.state = "on"


----------------------------------------------------------------------------
(* C23 *)

\* the observed command is turn_on(duration=d) or turn_off(duration=d)
TimedTurn == Running /\ Cmd.op \in {"turn_on", "turn_off"} /\ Cmd.turn.duration # Absent

\* C23: after turn_on(duration=d) the Blinkers is on at every track() made
\* before d has elapsed since the call, is moved to the off state without
\* timer by the first track() made once d has elapsed, and stays there;
\* turn_off(duration=d) is symmetric.
C23_TimedTurn ==
    TimedTurn =>
        LET timed == IF Cmd.op = "turn_on" THEN "on_duration" ELSE "off_duration"
            after == IF Cmd.op = "turn_on" THEN "off" ELSE "on"
            d == Cmd.turn.duration.val
        IN  /\ Len(Trace) = 0 => blinker.state = timed
            /\ Len(Trace) > 0 => blinker.state = Trace[Len(Trace)].state
            /\ \A k \in 1..Len(Trace) :
                  Trace[k].state = IF SinceCommand(k) < d THEN timed ELSE after
            /\ Blinkers_on(blinker) = (blinker.state = IF Cmd.op = "turn_on" THEN timed ELSE after)

\* turn_off(duration=2.0) tracked before 2 units elapsed (still off), at
\* exactly 2 units (moved to on) and once more (still on)
C23_Witness ==
    /\ TimedTurn /\ Cmd.op = "turn_off" /\ Cmd.turn.duration = PyFloat(2 * Scale)
    /\ Len(Trace) >= 3
    /\ \E k \in 2..(Len(Trace) - 1) :
          /\ Trace[k - 1].state = "off_duration" /\ Trace[k - 1].at > blk_hist.at
          /\ Trace[k].state = "on" /\ SinceCommand(k) = 2 * Scale
          /\ Trace[k + 1].state = "on"


----------------------------------------------------------------------------
(* C24 *)

\* the observed command is a continuous blink: no keyword, or cycle_duration only
ContinuousBlink == Running /\ Cmd.op = "blink" /\ Cmd.kw \in ContinuousKwargs
\* its cycle, and the times on and off of one cycle, in quarters
CycleOf(call) == Get(call.kw.cycle_duration, PyFloat(Scale)).val
TimeOn(call) == (CycleOf(call) * call.percent_on.val) \div Scale
TimeOff(call) == CycleOf(call) - TimeOn(call)
Opposite(s) ==
    CASE s = "blink_on" -> "blink_off"
      [] s = "blink_off" -> "blink_on"
      [] s = "blink_stop_on" -> "blink_stop_off"
      [] OTHER -> "blink_stop_on"

\* C24: after blink(cycle_duration=c, percent_on=p, begin_on=b) the first
\* track() enters blink_on when b is true and blink_off otherwise; the
\* Blinkers then alternates between the two for ever and never reaches a
\* state without timer; it leaves the on sub-state at the first track() made
\* once c*p has elapsed since it entered it, not before, and the off
\* sub-state at the first track() made once c - c*p has elapsed.
C24_ContinuousBlink ==
    ContinuousBlink =>
        /\ Len(Trace) = 0 => blinker.state = "blink_begin"
        /\ \A k \in 1..Len(Trace) :
              LET s == StateBefore(k, "blink_begin")
                  stay == IF s = "blink_on" THEN TimeOn(Cmd) ELSE TimeOff(Cmd)
              IN  /\ Trace[k].state \in {"blink_on", "blink_off"}
                  /\ k = 1 => Trace[k].state = IF Cmd.begin_on = PyBool(1) THEN "blink_on"
                                               ELSE "blink_off"
                  /\ k > 1 => Trace[k].state = IF StayedFor(k, "blink_begin") >= stay
                                               THEN Opposite(s) ELSE s

\* blink(cycle_duration=2.0, percent_on=0.5, begin_on=False): off for one
\* unit, tracked twice meanwhile, then on for one unit, then off again
C24_Witness ==
    /\ ContinuousBlink
    /\ Cmd.kw.cycle_duration = PyFloat(2 * Scale) /\ Cmd.percent_on = PyFloat(Scale \div 2)
    /\ Cmd.begin_on = PyBool(0)
    /\ Len(Trace) = 5
    /\ Trace[1].state = "blink_off" /\ Trace[2].state = "blink_off"
    /\ Trace[3].state = "blink_on" /\ Trace[3].at = Trace[1].at + 1
    /\ Trace[4].state = "blink_on"
    /\ Trace[5].state = "blink_off" /\ Trace[5].at = Trace[3].at + 1


----------------------------------------------------------------------------
(* C25 *)

\* the observed command is blink(total_duration=T, cycle_duration=c, ...)
TotalBlink ==
    Running /\ Cmd.op = "blink" /\ Cmd.kw.total_duration # Absent /\ Cmd.kw.n_cycles = Absent
\* the state without timer the blink ends in
EndHold(call) == IF Get(call.kw.end_off, PyBool(1)) = PyBool(1) THEN "off" ELSE "on"

\* C25: after blink(total_duration=T, cycle_duration=c, percent_on=p,
\* begin_on=b, end_off=e) the first track() enters blink_stop_on when b is
\* true and blink_stop_off otherwise; until T has elapsed since the call the
\* Blinkers alternates between the two, staying c*p on and c - c*p off; the
\* first track() made from a sub-state once T has elapsed enters
\* blink_stop_end, the next one enters off when e is true and on when e is
\* false, and every later one leaves it there.
C25_TotalBlink ==
    TotalBlink =>
        /\ Len(Trace) = 0 => blinker.state = "blink_stop_begin"
        /\ \A k \in 1..Len(Trace) :
              LET s == StateBefore(k, "blink_stop_begin")
                  stay == IF s = "blink_stop_on" THEN TimeOn(Cmd) ELSE TimeOff(Cmd)
              IN  Trace[k].state =
                    CASE s = "blink_stop_begin" ->
                           IF Cmd.begin_on = PyBool(1) THEN "blink_stop_on" ELSE "blink_stop_off"
                      [] s \in {"blink_stop_on", "blink_stop_off"} ->
                           IF SinceCommand(k) >= Cmd.kw.total_duration.val THEN "blink_stop_end"
                           ELSE IF StayedFor(k, "blink_stop_begin") >= stay THEN Opposite(s)
                           ELSE s
                      [] OTHER -> EndHold(Cmd)

\* blink(total_duration=2.0, percent_on=0.5, begin_on=True, end_off=False)
\* with the default cycle of 1.0: on, off one unit later, the end state once
\* two units have elapsed, then on without timer, twice
C25_Witness ==
    /\ TotalBlink
    /\ Cmd.kw.cycle_duration = Absent /\ Cmd.kw.end_off = PyBool(0) /\ Cmd.begin_on = PyBool(1)
    /\ Len(Trace) = 5
    /\ Trace[1].state = "blink_stop_on" /\ Trace[1].at = blk_hist.at
    /\ Trace[2].state = "blink_stop_off" /\ Trace[2].at = blk_hist.at + 1
    /\ Trace[3].state = "blink_stop_end" /\ Trace[3].at = blk_hist.at + 2
    /\ Trace[4].state = "on"
    /\ Trace[5].state = "on" /\ Trace[5].at > Trace[4].at
    /\ Blinkers_on(blinker)


----------------------------------------------------------------------------
(* C26 *)

\* the last operation was a blink call that raised
BlinkRaised == blk_last.call.op = "blink" /\ blk_last.err # "none"

----------------------------------------------------------------------------
(* C27 *)

\* the last operation was a blink with n_cycles that succeeded
CountedBlink ==
    /\ blk_last.call.op = "blink" /\ blk_last.err = "none"
    /\ blk_last.call.kw.n_cycles # Absent
\* the call without n_cycles it is said to equal: cycle_duration = T / n
\* when total_duration is given, total_duration = n * c otherwise
SameWithoutCount(call) ==
    LET n == call.kw.n_cycles.val
        c == Get(call.kw.cycle_duration, PyFloat(Scale)).val
    IN  IF call.kw.total_duration # Absent
        THEN [call EXCEPT !.kw.n_cycles = Absent,
                          !.kw.cycle_duration = PyFloat(call.kw.total_duration.val \div n)]
        ELSE [call EXCEPT !.kw.n_cycles = Absent,
                          !.kw.cycle_duration = PyFloat(c),
                          !.kw.total_duration = PyFloat(n * c)]

\* C27: blink(total_duration=T, n_cycles=n, ...) leaves the Blinkers exactly
\* as blink(total_duration=T, cycle_duration=T/n, ...) made at the same time
\* from the same state would, and blink(n_cycles=n, cycle_duration=c, ...)
\* exactly as blink(total_duration=n*c, cycle_duration=c, ...) would: same
\* current state, custom values, durations, entry bookkeeping and hooks.
C27_CountedBlinkIsTotalBlink ==
    CountedBlink =>
        LET same == Blinkers_call(blk_last.pre, SameWithoutCount(blk_last.call), blk_last.at)
        IN  /\ same.err = "none"
            /\ same.b = blinker
            /\ same.log = blk_last.log
            /\ blinker.state = "blink_stop_begin"

\* blink(total_duration=2.0, n_cycles=2, percent_on=0.5, end_off=False) made
\* while the Blinkers was blinking: cycle 1.0, half of it on
C27_Witness ==
    /\ CountedBlink
    /\ blk_last.call.kw.total_duration = PyFloat(2 * Scale)
    /\ blk_last.call.kw.n_cycles = PyInt(2)
    /\ blk_last.call.kw.end_off = PyBool(0)
    /\ blk_last.pre.state = "blink_on"
    /\ blinker.duration["blink_stop_begin"] = 2 * Scale
    /\ blinker.duration["blink_stop_on"] = Scale \div 2
    /\ blinker.duration["blink_stop_off"] = Scale \div 2
    /\ blinker.custom_value["blink_stop_end"] = BoolName(PyBool(0))


----------------------------------------------------------------------------
(* C28 - C30: the two channels of a SideBlinkers after one command *)

\* the observed command and the states its channels were in after each track()
SideCmd == side_hist.command
SideTrace == side_hist.trace
SideRunning == side_hist.phase = "run" /\ side_hist.err = "none"
LeftOn(k) == SideTrace[k].left \in OnStates
RightOn(k) == SideTrace[k].right \in OnStates

\* the observed command is a continuous blink on a reciprocal side that succeeded
ReciprocalBlink ==
    /\ SideRunning
    /\ SideCmd.call.op = "blink" /\ SideCmd.call.kw \in ContinuousKwargs
    /\ SideCmd.side \in {"LEFT_RECIPROCAL", "RIGHT_RECIPROCAL"}
\* the channel given percent_on and begin_on as they are, and the other one
Direct == IF SideCmd.side = "LEFT_RECIPROCAL" THEN sides.left ELSE sides.right
Inverse == IF SideCmd.side = "LEFT_RECIPROCAL" THEN sides.right ELSE sides.left

\* C28: after blink(LEFT_RECIPROCAL, percent_on=p, begin_on=b) with a
\* continuous policy the left channel blinks with on-fraction p starting on
\* iff b and the right one with on-fraction 1 - p starting on iff not b, and
\* once both channels have left their begin state exactly one of them is on
\* after every SideBlinkers.track(); RIGHT_RECIPROCAL is the mirror image.
C28_ExactlyOneOn ==
    ReciprocalBlink =>
        LET c == CycleOf(SideCmd.call)
            p == SideCmd.call.percent_on.val
        IN  /\ Direct.duration["blink_on"] = (c * p) \div Scale
            /\ Direct.duration["blink_off"] = c - (c * p) \div Scale
            /\ Direct.custom_value["blink_begin"] = BoolName(SideCmd.call.begin_on)
            /\ Inverse.duration["blink_on"] = (c * (Scale - p)) \div Scale
            /\ Inverse.duration["blink_off"] = c - (c * (Scale - p)) \div Scale
            /\ Inverse.custom_value["blink_begin"] = BoolName(NotOf(SideCmd.call.begin_on))
            /\ \A k \in 1..Len(SideTrace) :
                  (SideTrace[k].left # "blink_begin" /\ SideTrace[k].right # "blink_begin")
                      => (LeftOn(k) # RightOn(k))

\* the observed command is a blink, turn_on or turn_off on BOTH that succeeded
BothCommand == SideRunning /\ SideCmd.side = "BOTH"
\* the states whose durations and custom values a command writes
PolicyStates(call) ==
    CASE call.op = "turn_on" -> {"on", "on_duration"}
      [] call.op = "turn_off" -> {"off", "off_duration"}
      [] call.kw \in ContinuousKwargs -> {"blink_begin", "blink_on", "blink_off"}
      [] OTHER -> {"blink_stop_begin", "blink_stop_on", "blink_stop_off", "blink_stop_end"}

\* C29: after blink(BOTH, ...), turn_on(BOTH, ...) or turn_off(BOTH, ...) the
\* two channels have been given the same policy with the same parameters,
\* and after every SideBlinkers.track() the left channel is on iff the
\* right one is.
C29_BothAlike ==
    BothCommand =>
        /\ \A s \in PolicyStates(SideCmd.call) \cap DurationStates :
              sides.left.duration[s] = sides.right.duration[s]
        /\ \A s \in PolicyStates(SideCmd.call) \cap ValueStates :
              sides.left.custom_value[s] = sides.right.custom_value[s]
        /\ Len(SideTrace) = 0 =>
              /\ sides.left.state = sides.right.state
              /\ sides.left.state \in PolicyStates(SideCmd.call)
        /\ \A k \in 1..Len(SideTrace) : LeftOn(k) = RightOn(k)

\* the observed command is a reciprocal turn_on / turn_off that succeeded;
\* it opens the left channel when it is turn_on(LEFT_RECIPROCAL) or
\* turn_off(RIGHT_RECIPROCAL)
ReciprocalTurn ==
    /\ SideRunning
    /\ SideCmd.call.op \in {"turn_on", "turn_off"}
    /\ SideCmd.side \in {"LEFT_RECIPROCAL", "RIGHT_RECIPROCAL"}
OpensLeft == (SideCmd.call.op = "turn_on") = (SideCmd.side = "LEFT_RECIPROCAL")
\* the state of a channel told to turn on (open) or off with keywords kw, as
\* seen by a track() made at time t when the command reached it at time t0
TurnedState(open, kw, t0, t) ==
    IF kw.duration = Absent THEN (IF open THEN "on" ELSE "off")
    ELSE IF DurationOf(t - t0) < kw.duration.val
         THEN (IF open THEN "on_duration" ELSE "off_duration")
         ELSE (IF open THEN "off" ELSE "on")

\* C30: right after turn_on(LEFT_RECIPROCAL) or turn_off(RIGHT_RECIPROCAL)
\* the left channel is on and the right one off; right after
\* turn_on(RIGHT_RECIPROCAL) or turn_off(LEFT_RECIPROCAL) the right channel is
\* on and the left one off; so exactly one channel is on after the call.
\* With a duration each channel swaps at the first track() made once the
\* duration has elapsed since its own call, and stays swapped.
C30_ReciprocalTurn ==
    ReciprocalTurn =>
        LET kw == SideCmd.call.turn IN
        /\ Len(SideTrace) = 0 =>
              /\ SideBlinkers_on(sides, "LEFT") = OpensLeft
              /\ SideBlinkers_off(sides, "LEFT") = ~OpensLeft
              /\ SideBlinkers_on(sides, "RIGHT") = ~OpensLeft
              /\ SideBlinkers_off(sides, "RIGHT") = OpensLeft
              /\ SideBlinkers_on(sides, "LEFT") # SideBlinkers_on(sides, "RIGHT")
              /\ sides.left.state = TurnedState(OpensLeft, kw, 0, 0)
              /\ sides.right.state = TurnedState(~OpensLeft, kw, 0, 0)
        /\ \A k \in 1..Len(SideTrace) :
              /\ SideTrace[k].left =
                    TurnedState(OpensLeft, kw, side_hist.left_at, SideTrace[k].left_at)
              /\ SideTrace[k].right =
                    TurnedState(~OpensLeft, kw, side_hist.right_at, SideTrace[k].right_at)

\* turn_off(LEFT_RECIPROCAL, duration=1.0) made while both channels were on:
\* left off and right on at a first track(), swapped at a later one
C30_Witness ==
    /\ ReciprocalTurn
    /\ SideCmd = SideCall("LEFT_RECIPROCAL",
                          TurnCall("turn_off", [NoTurnKwargs EXCEPT !.duration = PyFloat(Scale)]))
    /\ side_hist.commands = 2
    /\ sides.left.monitored["on"].entry_count = 2
    /\ Len(SideTrace) >= 2
    /\ SideTrace[1].left = "off_duration" /\ SideTrace[1].right = "on_duration"
    /\ sides.left.state = "on" /\ sides.right.state = "off"

----------------------------------------------------------------------------
(* SideBlinkers: queries, failed blinks, one-sided commands *)

\* the query answered by the step, if it is one
Queried == side_last'.call.call.op \in {"on", "off"} /\ side_last' # side_last
QuerySide == side_last'.call.side
QueryChannel == IF QuerySide = "LEFT" THEN sides.left ELSE sides.right
\* the answer of the channel's status, read from its current state
ChannelStatus(b, op) ==
    LET lit == {"on", "on_duration", "blink_on", "blink_stop_on"}
        dark == {"off", "off_duration", "blink_off", "blink_stop_off", "blink_begin",
                 "blink_stop_begin", "blink_stop_end"}
    IN  IF b.state \in (IF op = "on" THEN lit ELSE dark) THEN "True" ELSE "False"

C31_Step ==
    Queried =>
        /\ sides' = sides
        /\ IF QuerySide \in {"LEFT", "RIGHT"}
           THEN /\ side_last'.err = "none"
                /\ side_last'.ret = ChannelStatus(QueryChannel, side_last'.call.call.op)
           ELSE /\ side_last'.err = "ValueError"
                /\ side_last'.ret = "None"
        /\ (side_hist.phase = "setup" /\ side_hist.commands = 0 /\ QuerySide \in {"LEFT", "RIGHT"})
              => side_last'.ret = (IF side_last'.call.call.op = "off" THEN "True" ELSE "False")

\* C31: on(side) and off(side) raise ValueError, touching neither channel,
\* for BOTH, LEFT_RECIPROCAL and RIGHT_RECIPROCAL; for LEFT and RIGHT they
\* answer that channel's status only; a fresh SideBlinkers answers off and
\* not on for both channels.
C31_QueryOneSideOnly == [][C31_Step]_vars

\* on(RIGHT) answered True while the left channel is off
C31_Witness ==
    /\ side_last.call = SideCall("RIGHT", TurnCall("on", NoTurnKwargs))
    /\ side_last.ret = "True"
    /\ sides.left.state = "off"

\* the observed command has just been made: no track() has followed it
JustCommanded == side_hist.phase = "run" /\ side_hist.trace = <<>>
\* a Blinkers has the current state, custom values and durations of another
SameSettings(b, c) ==
    /\ b.state = c.state
    /\ b.custom_value = c.custom_value
    /\ b.duration = c.duration
Blinking(b) ==
    b.state \in {"blink_begin", "blink_on", "blink_off", "blink_stop_begin", "blink_stop_on",
                 "blink_stop_off", "blink_stop_end"}

\* C32: a SideBlinkers.blink that raises, for any side and any invalid
\* argument, leaves both Blinkers with the current state, custom values and
\* durations they had before, and neither channel has started blinking.
C32_FailedBlinkLeavesBoth ==
    (JustCommanded /\ SideCmd.call.op = "blink" /\ side_hist.err # "none") =>
        /\ SameSettings(sides.left, side_hist.pre.left)
        /\ SameSettings(sides.right, side_hist.pre.right)
        /\ ~Blinking(sides.left)
        /\ ~Blinking(sides.right)

\* C39: blink, turn_on and turn_off with side LEFT leave the right Blinkers'
\* current state, on/off status, custom values and durations unchanged and
\* run none of its hooks; symmetrically for RIGHT and the left Blinkers.
C39_OtherSideUntouched ==
    JustCommanded =>
        /\ SideCmd.side = "LEFT" =>
              /\ SameSettings(sides.right, side_hist.pre.right)
              /\ Blinkers_on(sides.right) = Blinkers_on(side_hist.pre.right)
              /\ side_hist.right_log = <<>>
        /\ SideCmd.side = "RIGHT" =>
              /\ SameSettings(sides.left, side_hist.pre.left)
              /\ Blinkers_on(sides.left) = Blinkers_on(side_hist.pre.left)
              /\ side_hist.left_log = <<>>

----------------------------------------------------------------------------
(* Bounded blinks *)

\* the observed command is a blink bounded by a total duration or a number
\* of cycles; its total duration, in quarters
BoundedBlink ==
    Running /\ Cmd.op = "blink" /\ (Cmd.kw.total_duration # Absent \/ Cmd.kw.n_cycles # Absent)
TotalOf(call) ==
    IF call.kw.total_duration # Absent THEN call.kw.total_duration.val
    ELSE call.kw.n_cycles.val * CycleOf(call)
SubStates == {"blink_stop_on", "blink_stop_off"}

\* C33: during a bounded blink of total duration T the Blinkers is in no
\* state without timer and not in the end state before T has elapsed since
\* its single entry into blink_stop_begin; the alternation never re-enters
\* blink_stop_begin, so the timer of T is never restarted; the first track()
\* made from a sub-state once T has elapsed enters blink_stop_end, also when
\* the sub-state's own timer has expired at the same moment.
C33_TotalFirst ==
    BoundedBlink =>
        /\ blinker.monitored["blink_stop_begin"].last_entry_time = blk_hist.at
        /\ Len(Trace) = 0 => blinker.state = "blink_stop_begin"
        /\ \A k \in 1..Len(Trace) :
              /\ Trace[k].state # "blink_stop_begin"
              /\ SinceCommand(k) < TotalOf(Cmd) => Trace[k].state \in SubStates
              /\ (StateBefore(k, "blink_stop_begin") \in SubStates
                    /\ SinceCommand(k) >= TotalOf(Cmd)) => Trace[k].state = "blink_stop_end"

\* blink(total_duration=2.0, cycle_duration=2.0, percent_on=0.5): on at the
\* call, off one unit later, and at two units, when the time off has expired
\* as well, the end state
C33_Witness ==
    /\ BoundedBlink
    /\ Cmd.kw.total_duration = PyFloat(2 * Scale) /\ Cmd.kw.cycle_duration = PyFloat(2 * Scale)
    /\ Cmd.begin_on = PyBool(1)
    /\ Len(Trace) >= 3
    /\ Trace[1].state = "blink_stop_on" /\ Trace[1].at = blk_hist.at
    /\ Trace[2].state = "blink_stop_off" /\ Trace[2].at = blk_hist.at + 1
    /\ Trace[3].state = "blink_stop_end" /\ Trace[3].at = blk_hist.at + 2

\* the track() calls that entered the on sub-state
OnEntries ==
    { k \in 1..Len(Trace) :
        Trace[k].state = "blink_stop_on" /\ StateBefore(k, "blink_stop_begin") # "blink_stop_on" }

\* C34: after blink(n_cycles=n, cycle_duration=c) or blink(total_duration=T,
\* n_cycles=n) followed by track() calls only, the on sub-state is entered at
\* most n times before the final state without timer, whatever begin_on and
\* the times of the track() calls.
C34_AtMostNCycles ==
    (BoundedBlink /\ Cmd.kw.n_cycles # Absent) =>
        Cardinality(OnEntries) <= Cmd.kw.n_cycles.val

\* blink(n_cycles=1, cycle_duration=2.0, percent_on=0.5, begin_on=False): off,
\* on one unit later, the end state at two units, then off without timer
C34_Witness ==
    /\ BoundedBlink
    /\ Cmd.kw.n_cycles = PyInt(1) /\ Cmd.kw.cycle_duration = PyFloat(2 * Scale)
    /\ Cmd.begin_on = PyBool(0)
    /\ Cardinality(OnEntries) = 1
    /\ Len(Trace) >= 4
    /\ Trace[Len(Trace)].state = "off"

----------------------------------------------------------------------------
(* Durations that are not positive *)

\* C36: turn_on(duration=d) and turn_off(duration=d) with d <= 0 are rejected
\* with an error and leave the duration of the condition and the state of the
\* Blinkers as they were, as the assignment of a duration that is not
\* positive to a TimedCondition is.
C36_NonPositiveRejected ==
    (/\ blk_last.call.op \in {"turn_on", "turn_off"}
     /\ blk_last.call.turn.duration.kind \in {"float", "int"}
     /\ blk_last.call.turn.duration.val <= 0) =>
        /\ blk_last.err # "none"
        /\ blinker = blk_last.pre

----------------------------------------------------------------------------
(* start() with a time budget *)

\* start() is in its loop with a positive budget
BudgetedRun == pc = "loop" /\ time_budget.kind = "float" /\ time_budget.val > 0

C37_Step ==
    /\ (BudgetedRun /\ last'.op = "track") => now - current_time < time_budget.val
    /\ (BudgetedRun /\ pc' = "idle" /\ last'.op # "track") => (IsTrack /\ last.in_start)

\* C37: start(time_budget=B) with B > 0 always returns, even when no terminal
\* state is reachable and stop() is never called, provided the clock advances
\* and every hook returns; it makes at least one track() before it returns
\* and never starts a track() when the time elapsed, measured after the
\* previous step, has reached B.
C37_BudgetedStartReturns == [][C37_Step]_vars /\ (BudgetedRun ~> pc = "idle")

\* start(time_budget=2.0) on a machine without terminal state: the budget has
\* run out after track() calls none of which ended the loop
C37_Witness ==
    /\ BudgetedRun
    /\ time_budget.val = MaxBudget
    /\ \A s \in States : ~layout.terminal[s]
    /\ IsTrack /\ last.in_start /\ ~last.stop
    /\ elapsed_time >= time_budget.val

----------------------------------------------------------------------------
(* The operational state after start() *)

\* start() has just returned: its loop condition was false before a track(),
\* or after one
StartReturned ==
    /\ pc = "idle"
    /\ last.err = "none"
    /\ last.op = "start_return" \/ (IsTrack /\ last.in_start)

\* C40: whenever start() returns, because a terminal state was reached,
\* stop() was called or the budget ran out, the operational state is no
\* longer RUNNING, so that a reset() made then runs no exit hook.
C40_NotRunningAfterStart ==
    StartReturned =>
        /\ current_operational_state # RUNNING
        /\ ResetResult(layout, current_applicative_state, current_operational_state).log
              = <<Ev("set", layout.initial_state, 0)>>

----------------------------------------------------------------------------
(* The in-state hook on entry and on exit *)

ParLog == par_last.log
Entering(s) == Ev("_do_entering_action", s, 0)
InState(s) == Ev("_do_in_state_action", s, 0)
Exiting(s) == Ev("_do_exiting_action", s, 0)

\* C35: a State whose Parameters set do_in_state_action_when_entering runs
\* its in-state hook right after its entry hook whenever it is entered; one
\* whose Parameters set do_in_state_action_when_exiting runs its in-state
\* hook right before its exit hook whenever it is left; with both flags
\* false, entering and leaving the State run no in-state hook.
C35_InStateHookOnEntryAndExit ==
    \A k \in 1..Len(ParLog) :
        LET s == ParLog[k].state
            p == par_parameters[s]
        IN  /\ (ParLog[k] = Entering(s) /\ p.do_in_state_action_when_entering) =>
                  (k < Len(ParLog) /\ ParLog[k + 1] = InState(s))
            /\ (ParLog[k] = Exiting(s) /\ p.do_in_state_action_when_exiting) =>
                  (k > 1 /\ ParLog[k - 1] = InState(s))
            /\ (ParLog[k] = InState(s) /\ par_last.moved) =>
                  \/ p.do_in_state_action_when_entering /\ k > 1 /\ ParLog[k - 1] = Entering(s)
                  \/ p.do_in_state_action_when_exiting /\ k < Len(ParLog)
                        /\ ParLog[k + 1] = Exiting(s)

----------------------------------------------------------------------------
(* The nested machine of a task state *)

\* the last operation was a track() of the parent machine; a transition of
\* the state it was in has fired
ParentTracked == nest_last.op = "track"
ParentFired ==
    \E i \in 1..Len(ParentLayout.transition[nest_last.pre_parent]) : nest_last.guards[i]

\* C38: each track() of the parent machine tracks the nested machine at most
\* once: once when the parent is in the task state and none of its
\* transitions fires, not at all when the parent takes a transition into or
\* out of the task state; the nested machine's current state changes only
\* through these calls and the commands made to it.
C38_ChildTrackedOncePerStep ==
    /\ ParentTracked =>
          /\ nest_last.tracks <= 1
          /\ nest_last.tracks = 1 <=> (nest_last.pre_parent = TaskState /\ ~ParentFired)
          /\ (nest_parent # nest_last.pre_parent
                /\ TaskState \in {nest_parent, nest_last.pre_parent}) => nest_last.tracks = 0
          /\ nest_last.tracks = 0 => nest_child = nest_last.pre_child
    /\ nest_child # nest_last.pre_child =>
          \/ ParentTracked /\ nest_last.tracks = 1
          \/ nest_last.op \in {"child.transit_to", "child.reset"}

\* a track() of the parent in its task state, no transition firing, that
\* moved the nested machine from its stop state to its moving state
C38_Witness ==
    /\ ParentTracked
    /\ nest_last.pre_parent = TaskState /\ nest_parent = TaskState
    /\ nest_last.tracks = 1
    /\ nest_last.pre_child = "A" /\ nest_child = "B"

====
